---- MODULE Spec2Model ----
(***************************************************************************)
(* Tempo -> Toggl synchronisation.                                         *)
(*                                                                         *)
(* The module models                                                       *)
(*   - the timestamp normaliser and the deduplicator                       *)
(*     (src/lib/deduplication.ts),                                         *)
(*   - the record transformer (lib/transform.ts, current version),        *)
(*   - the enrichment fan-out of the Tempo client and the sequential       *)
(*     creation loop of the Toggl client (api/*-client.ts),                *)
(*   - the orchestrator SyncService.syncTimeEntries                        *)
(*     (src/services/sync-service.ts).                                     *)
(*                                                                         *)
(* JavaScript values.  An optional value (a field that may be undefined)   *)
(* is a sequence of length 0 (undefined) or 1 (the value).  A thrown       *)
(* value is a record [isError, message]; for a value that is no Error,     *)
(* message is its String() form.  A function that may throw returns        *)
(* [ok |-> TRUE, value |-> v] or [ok |-> FALSE, error |-> e].              *)
(*                                                                         *)
(* Timestamps.  A timestamp string is a record                             *)
(*   [valid, notation, local, off]:                                        *)
(* `local' is the wall-clock reading written in the string, counted in     *)
(* ticks of 1/TicksPerMs millisecond since the epoch; `notation' says      *)
(* whether the zone designator is the letter Z or a numeric offset; `off'  *)
(* is that offset in whole milliseconds (real offsets are whole minutes).  *)
(* The instant the string denotes is local - off * TicksPerMs ticks.       *)
(***************************************************************************)
EXTENDS Integers, Sequences, FiniteSets, TLC

\* ------------------------------------------------------------------ bounds

\* Resolution of the written timestamps: ticks per millisecond.
TicksPerMs == 2
\* Longest list SourceFetch returns in the orchestrator model.
MaxWorklogs == 3
\* Longest list SinkFetch returns in the orchestrator model.
MaxSink == 1
\* Longest candidate / existing lists given to filterDuplicateEntries alone.
MaxCandidates == 2
MaxExisting == 1
\* Longest list given to transformTempoWorklogsToToggl alone.
MaxBatch == 3
\* Most midnights that pass while promptForDateRange waits for input.
MaxMidnights == 2

\* --------------------------------------------------------- generic helpers

\* All sequences over S of length at most n.
SeqUpTo(S, n) == UNION {[1..k -> S] : k \in 0..n}

\* The set of elements of a sequence.
Range(s) == {s[i] : i \in DOMAIN s}

Undefined == <<>>
Some(v) == <<v>>

\* JavaScript truthiness of an optional string: defined and not "".
TruthyStr(o) == o # Undefined /\ Len(o[1]) > 0

\* A string whose characters the program examines (a description, a line
\* typed, the value of an environment variable) is the sequence of its
\* characters.  A character is written as itself when it is a printable
\* ASCII character or one of "\t", "\n", "\r", "\f", and by its code point,
\* as in "U+00A0", when it is any other.  Text(s) is the sequence of the
\* characters of s, for s written in printable ASCII and those four.
Text(s) == [i \in 1..Len(s) |-> SubSeq(s, i, i)]

\* `error instanceof Error ? error.message : fallback'
MessageOr(e, fallback) == IF e.isError THEN e.message ELSE fallback

ErrorOf(msg) == [isError |-> TRUE, message |-> msg]
Ok(v) == [ok |-> TRUE, value |-> v]
Throw(e) == [ok |-> FALSE, error |-> e]

\* -------------------------------------------------------------- timestamps

TsZ(ticks) == [valid |-> TRUE, notation |-> "Z", local |-> ticks, off |-> 0]
TsOff(ticks, o) == [valid |-> TRUE, notation |-> "offset", local |-> ticks, off |-> o]
TsInvalid == [valid |-> FALSE, notation |-> "Z", local |-> 0, off |-> 0]

\* The instant a valid timestamp string denotes, in ticks since the epoch.
InstantOf(ts) == ts.local - ts.off * TicksPerMs

\* Mutant: the zone designator is ignored, the wall-clock reading is taken
\* as UTC.
DateParseIgnoringOffset(ts) ==
    IF ts.valid
    THEN [nan |-> FALSE, ms |-> ts.local \div TicksPerMs]
    ELSE [nan |-> TRUE, ms |-> 0]

\* new Date(string): the time value in whole milliseconds (fraction digits
\* beyond the third are dropped), or NaN for an unparsable string.
DateParse(ts) ==
    IF ts.valid
    THEN [nan |-> FALSE, ms |-> InstantOf(ts) \div TicksPerMs]
    ELSE [nan |-> TRUE, ms |-> 0]

\* Mutant: an invalid date is formatted silently, as String(date) is.
ToISOStringSilent(d) ==
    IF d.nan
    THEN Ok(TsInvalid)
    ELSE Ok(TsZ(d.ms * TicksPerMs))

\* Date.prototype.toISOString: "YYYY-MM-DDTHH:mm:ss.sssZ", or a RangeError
\* for an invalid date.
ToISOString(d) ==
    IF d.nan
    THEN Throw(ErrorOf("Invalid time value"))
    ELSE Ok(TsZ(d.ms * TicksPerMs))

\* Mutant: the timestamp is compared as written, not normalised.
normalizeTimestampAsWritten(timestamp) == Ok(timestamp)

normalizeTimestamp(timestamp) == ToISOString(DateParse(timestamp))

\* ----------------------------------------------------------- deduplication

\* Mutant: a start within one millisecond of an existing one matches.
IsDuplicateWithinTolerance(normalizedStart, existingStartTimes) ==
    \E e \in existingStartTimes :
        /\ e.local - normalizedStart.local <= TicksPerMs
        /\ normalizedStart.local - e.local <= TicksPerMs

\* existingStartTimes.has(normalizedStart)
IsDuplicate(normalizedStart, existingStartTimes) ==
    normalizedStart \in existingStartTimes

\* The DeduplicationResult built from the two lists.
DeduplicationResult(uniqueEntries, duplicates) ==
    [uniqueEntries |-> uniqueEntries,
     duplicates |-> duplicates,
     skippedCount |-> Len(duplicates)]

\* Mutant: the filter callback keeps every candidate, duplicates included.
RECURSIVE FilterFromKeepsAll(_, _, _, _, _)
FilterFromKeepsAll(newEntries, existingStartTimes, i, uniqueEntries, duplicates) ==
    IF i > Len(newEntries)
    THEN Ok(DeduplicationResult(uniqueEntries, duplicates))
    ELSE LET n == normalizeTimestamp(newEntries[i].start) IN
         IF ~n.ok
         THEN Throw(n.error)
         ELSE FilterFromKeepsAll(newEntries, existingStartTimes, i + 1,
                  Append(uniqueEntries, newEntries[i]),
                  IF IsDuplicate(n.value, existingStartTimes)
                  THEN Append(duplicates, newEntries[i])
                  ELSE duplicates)

\* Mutant: a start kept once counts as existing for the candidates after it.
RECURSIVE FilterFromOncePerStart(_, _, _, _, _)
FilterFromOncePerStart(newEntries, existingStartTimes, i, uniqueEntries, duplicates) ==
    IF i > Len(newEntries)
    THEN Ok(DeduplicationResult(uniqueEntries, duplicates))
    ELSE LET n == normalizeTimestamp(newEntries[i].start) IN
         IF ~n.ok
         THEN Throw(n.error)
         ELSE IF IsDuplicate(n.value, existingStartTimes)
              THEN FilterFromOncePerStart(newEntries, existingStartTimes, i + 1,
                       uniqueEntries, Append(duplicates, newEntries[i]))
              ELSE FilterFromOncePerStart(newEntries,
                       existingStartTimes \cup {n.value}, i + 1,
                       Append(uniqueEntries, newEntries[i]), duplicates)

\* newEntries.filter(...) from candidate i on: the callback normalises the
\* candidate's start (and may throw), pushes a duplicate to `duplicates' and
\* keeps the others.
RECURSIVE FilterFrom(_, _, _, _, _)
FilterFrom(newEntries, existingStartTimes, i, uniqueEntries, duplicates) ==
    IF i > Len(newEntries)
    THEN Ok(DeduplicationResult(uniqueEntries, duplicates))
    ELSE LET n == normalizeTimestamp(newEntries[i].start) IN
         IF ~n.ok
         THEN Throw(n.error)
         ELSE IF IsDuplicate(n.value, existingStartTimes)
              THEN FilterFrom(newEntries, existingStartTimes, i + 1,
                              uniqueEntries, Append(duplicates, newEntries[i]))
              ELSE FilterFrom(newEntries, existingStartTimes, i + 1,
                              Append(uniqueEntries, newEntries[i]), duplicates)

filterDuplicateEntries(newEntries, existingEntries) ==
    LET mapped == [i \in DOMAIN existingEntries |->
                      normalizeTimestamp(existingEntries[i].start)]
        bad == {i \in DOMAIN mapped : ~mapped[i].ok}
    IN  IF bad # {}
        THEN Throw(mapped[CHOOSE i \in bad : \A j \in bad : i <= j].error)
        ELSE FilterFrom(newEntries, {mapped[i].value : i \in DOMAIN mapped},
                        1, <<>>, <<>>)

\* ---------------------------------------------------------- transformation

\* `s || ""' for an optional string.
OrEmpty(o) == IF TruthyStr(o) THEN o[1] ELSE Text("")

\* The characters String.prototype.trim and parseInt strip: WhiteSpace
\* (U+0009, U+000B, U+000C, U+FEFF and the space separators U+0020, U+00A0,
\* U+1680, U+2000 to U+200A, U+202F, U+205F, U+3000) and LineTerminator
\* (U+000A, U+000D, U+2028, U+2029).
IsWhiteSpace(c) ==
    c \in {"\t", "U+000B", "\f", "U+FEFF",
           " ", "U+00A0", "U+1680",
           "U+2000", "U+2001", "U+2002", "U+2003", "U+2004", "U+2005",
           "U+2006", "U+2007", "U+2008", "U+2009", "U+200A",
           "U+202F", "U+205F", "U+3000",
           "\n", "\r", "U+2028", "U+2029"}

\* String.prototype.trim
RECURSIVE Trim(_)
Trim(s) ==
    IF Len(s) = 0 THEN s
    ELSE IF IsWhiteSpace(s[1]) THEN Trim(SubSeq(s, 2, Len(s)))
    ELSE IF IsWhiteSpace(s[Len(s)]) THEN Trim(SubSeq(s, 1, Len(s) - 1))
    ELSE s

\* Mutant: the issue URL is used whenever the issue has one, as the earlier
\* version of the transformer did; the key only serves an issue without URL.
ComposeDescriptionUrlFirst(worklog) ==
    IF worklog.issue # Undefined /\ worklog.issue[1].self # ""
    THEN Text(worklog.issue[1].self) \o Text(" | ")
             \o OrEmpty(worklog.description)
    ELSE IF worklog.issue # Undefined /\ TruthyStr(worklog.issue[1].key)
    THEN Text(worklog.issue[1].key[1]) \o Text(": ")
             \o OrEmpty(worklog.description)
    ELSE OrEmpty(worklog.description)

\* The description composed from the issue and the original description.
ComposeDescription(worklog) ==
    IF worklog.issue # Undefined /\ TruthyStr(worklog.issue[1].key)
    THEN Text(worklog.issue[1].key[1]) \o Text(": ")
             \o OrEmpty(worklog.description)
    ELSE IF worklog.issue # Undefined /\ worklog.issue[1].self # ""
    THEN Text(worklog.issue[1].self) \o Text(" | ")
             \o OrEmpty(worklog.description)
    ELSE OrEmpty(worklog.description)

\* Mutant: a worklog with zero billable seconds counts as billable.
IsBillableFromZero(worklog) == worklog.billableSeconds >= 0

\* `const billable = worklog.billableSeconds > 0'
IsBillable(worklog) == worklog.billableSeconds > 0

\* The number NaN.  The integers here range from -2147483647 to
\* 2147483647, which every number the program handles in the model is
\* within; the integer below that range stands for NaN, and no text parses
\* to it (ParseInt reads the magnitude before it applies the sign).
NaN == -2147483647 - 1

\* `if (config.project_id)': defined, not 0 and not NaN.
TruthyNum(o) == o # Undefined /\ o[1] # 0 /\ o[1] # NaN

transformTempoWorklogToToggl(worklog, config) ==
    LET payload ==
            [workspace_id |-> config.workspace_id,
             task_id |-> config.task_id,
             billable |-> IsBillable(worklog),
             start |-> worklog.startDateTimeUtc,
             duration |-> worklog.timeSpentSeconds,
             description |-> Trim(ComposeDescription(worklog)),
             created_with |-> IF config.created_with # ""
                              THEN config.created_with
                              ELSE "tempo-to-toggl-sync"]
    IN  IF TruthyNum(config.project_id)
        THEN payload @@ [project_id |-> config.project_id]
        ELSE payload

\* Mutant: the batch is built back to front.
transformTempoWorklogsToTogglReversed(worklogs, config) ==
    [i \in DOMAIN worklogs |->
        transformTempoWorklogToToggl(worklogs[Len(worklogs) + 1 - i], config)]

transformTempoWorklogsToToggl(worklogs, config) ==
    [i \in DOMAIN worklogs |-> transformTempoWorklogToToggl(worklogs[i], config)]

\* -------------------------------------------------------------- enrichment

\* `worklog.issue?.self' is truthy.
HasIssueSelf(worklog) ==
    worklog.issue # Undefined /\ worklog.issue[1].self # ""

\* The Set of issue URLs in insertion order (a Set iterates in that order).
RECURSIVE UniqueIssueUrlsFrom(_, _, _)
UniqueIssueUrlsFrom(worklogs, i, acc) ==
    IF i > Len(worklogs) THEN acc
    ELSE IF HasIssueSelf(worklogs[i]) /\ worklogs[i].issue[1].self \notin Range(acc)
    THEN UniqueIssueUrlsFrom(worklogs, i + 1, Append(acc, worklogs[i].issue[1].self))
    ELSE UniqueIssueUrlsFrom(worklogs, i + 1, acc)

\* Mutant: one URL per worklog with an issue (an array, not a Set).
uniqueIssueUrlsPerWorklog(worklogs) ==
    LET withIssue == SelectSeq(worklogs, HasIssueSelf)
    IN  [i \in DOMAIN withIssue |-> withIssue[i].issue[1].self]

uniqueIssueUrls(worklogs) == UniqueIssueUrlsFrom(worklogs, 1, <<>>)

\* What the catch block of a lookup records for a failed lookup.
EmptyDetails == [key |-> "", summary |-> ""]

\* The callback of the final worklogs.map.
EnrichWorklog(worklog, detailsMap) ==
    IF HasIssueSelf(worklog) /\ worklog.issue[1].self \in DOMAIN detailsMap
    THEN LET details == detailsMap[worklog.issue[1].self] IN
         [worklog EXCEPT !.issue =
             Some([worklog.issue[1] EXCEPT !.key = Some(details.key),
                                           !.summary = Some(details.summary)])]
    ELSE worklog

EnrichWorklogs(worklogs, detailsMap) ==
    [i \in DOMAIN worklogs |-> EnrichWorklog(worklogs[i], detailsMap)]

\* ------------------------------------------------------------ configuration

IsDigit(c) == c \in {"0", "1", "2", "3", "4", "5", "6", "7", "8", "9"}

DigitValue(c) ==
    CASE c = "0" -> 0 [] c = "1" -> 1 [] c = "2" -> 2 [] c = "3" -> 3
      [] c = "4" -> 4 [] c = "5" -> 5 [] c = "6" -> 6 [] c = "7" -> 7
      [] c = "8" -> 8 [] c = "9" -> 9

\* The value of the longest run of decimal digits of s that starts at
\* position i, continuing the value acc.
RECURSIVE DigitsFrom(_, _, _)
DigitsFrom(s, i, acc) ==
    IF i <= Len(s) /\ IsDigit(s[i])
    THEN DigitsFrom(s, i + 1, 10 * acc + DigitValue(s[i]))
    ELSE acc

\* s without its leading white space.
RECURSIVE SkipWhiteSpace(_)
SkipWhiteSpace(s) ==
    IF Len(s) > 0 /\ IsWhiteSpace(s[1])
    THEN SkipWhiteSpace(SubSeq(s, 2, Len(s)))
    ELSE s

\* parseInt(s, 10): leading white space is skipped, one sign is read, then
\* the leading digits are read and what follows them is ignored; without
\* a digit there the result is NaN.  Defined for digits that write a number
\* up to 2147483647, the largest integer here.
ParseInt(s) ==
    LET t == SkipWhiteSpace(s)
        signed == Len(t) > 0 /\ t[1] \in {"+", "-"}
        u == IF signed THEN SubSeq(t, 2, Len(t)) ELSE t
    IN  IF Len(u) = 0 \/ ~IsDigit(u[1]) THEN NaN
        ELSE IF signed /\ t[1] = "-" THEN 0 - DigitsFrom(u, 1, 0)
        ELSE DigitsFrom(u, 1, 0)

\* The variables loadConfig requires, in the order it checks them.
RequiredVariables ==
    <<"TOGGL_TOKEN", "TEMPO_TOKEN", "TOGGL_WORKSPACE_ID", "JIRA_EMAIL",
      "JIRA_API_TOKEN", "TOGGL_TASK_ID">>

\* The positions of the required variables that are unset or empty.
MissingVariables(e) ==
    {i \in DOMAIN RequiredVariables : ~TruthyStr(e[RequiredVariables[i]])}

\* Mutant: the check that throws is the last failing one.
FirstMissingFromEnd(e) ==
    CHOOSE i \in MissingVariables(e) : \A j \in MissingVariables(e) : j <= i

\* The first check of loadConfig that fails.
FirstMissing(e) ==
    CHOOSE i \in MissingVariables(e) : \A j \in MissingVariables(e) : i <= j

loadConfig(e) ==
    IF MissingVariables(e) # {}
    THEN Throw(ErrorOf("Missing required environment variable: "
                          \o RequiredVariables[FirstMissing(e)]))
    ELSE Ok([togglToken |-> e.TOGGL_TOKEN[1],
             tempoToken |-> e.TEMPO_TOKEN[1],
             jiraEmail |-> e.JIRA_EMAIL[1],
             jiraApiToken |-> e.JIRA_API_TOKEN[1],
             togglWorkspaceId |-> ParseInt(e.TOGGL_WORKSPACE_ID[1]),
             togglProjectId |-> IF TruthyStr(e.TOGGL_PROJECT_ID)
                                THEN Some(ParseInt(e.TOGGL_PROJECT_ID[1]))
                                ELSE Undefined,
             togglTaskId |-> ParseInt(e.TOGGL_TASK_ID[1])])

\* -------------------------------------------------------------- date input

\* /^\d{4}-\d{2}-\d{2}$/
isValidDateFormat(date) ==
    /\ Len(date) = 10
    /\ \A i \in {1, 2, 3, 4, 6, 7, 9, 10} : IsDigit(date[i])
    /\ date[5] = "-"
    /\ date[8] = "-"

\* The three numbers written in a string of the format.
YearOf(date) == DigitsFrom(SubSeq(date, 1, 4), 1, 0)
MonthOf(date) == DigitsFrom(SubSeq(date, 6, 7), 1, 0)
DayOf(date) == DigitsFrom(SubSeq(date, 9, 10), 1, 0)

IsLeapYear(y) == (y % 4 = 0 /\ y % 100 # 0) \/ y % 400 = 0

\* Days of the year before the first of each month, in a common year.
DaysBeforeMonth == <<0, 31, 59, 90, 120, 151, 181, 212, 243, 273, 304, 334>>

DaysInMonth(y, m) ==
    IF m = 2 THEN (IF IsLeapYear(y) THEN 29 ELSE 28)
    ELSE IF m \in {4, 6, 9, 11} THEN 30 ELSE 31

\* The number of the day y-m-d, counted from 0001-01-01 = 1; a day beyond
\* the end of the month counts on into the next month.
DayNumber(y, m, d) ==
    365 * (y - 1) + ((y - 1) \div 4) - ((y - 1) \div 100) + ((y - 1) \div 400)
        + DaysBeforeMonth[m] + (IF m > 2 /\ IsLeapYear(y) THEN 1 ELSE 0) + d

\* new Date(date + "T00:00:00") for a string of the format: local midnight
\* of the day written; V8 takes any month 1..12 and any day 1..31 and lets a
\* day beyond the end of the month roll over; anything else is NaN.
DateAtMidnight(date) ==
    IF MonthOf(date) \in 1..12 /\ DayOf(date) \in 1..31
    THEN [nan |-> FALSE,
          day |-> DayNumber(YearOf(date), MonthOf(date), DayOf(date))]
    ELSE [nan |-> TRUE, day |-> 0]

\* getFullYear(), getMonth() + 1 and getDate() of a local midnight.
CivilDate(d, year) ==
    CHOOSE c \in [year : {year, year + 1}, month : 1..12, day : 1..31] :
        /\ c.day <= DaysInMonth(c.year, c.month)
        /\ DayNumber(c.year, c.month, c.day) = d.day

\* Mutant: a string the Date constructor accepts is a valid date.
isValidDateIfParsed(date) ==
    /\ isValidDateFormat(date)
    /\ ~DateAtMidnight(date).nan

isValidDate(date) ==
    /\ isValidDateFormat(date)
    /\ LET parsedDate == DateAtMidnight(date) IN
       /\ ~parsedDate.nan
       /\ CivilDate(parsedDate, YearOf(date)) =
              [year |-> YearOf(date), month |-> MonthOf(date), day |-> DayOf(date)]

\* inputDate > today, today being local midnight of the clock's day.
isDateInFuture(date, clockDay) ==
    LET inputDate == DateAtMidnight(date) IN
    ~inputDate.nan /\ inputDate.day > clockDay

\* start < end
isValidDateRange(startDate, endDate) ==
    LET start == DateAtMidnight(startDate)
        end == DateAtMidnight(endDate)
    IN  ~start.nan /\ ~end.nan /\ start.day < end.day

\* One pass of the loop of promptForValidDate(message, allowFuture) on the
\* trimmed line: the complaint printed, or "ok" when the date is returned.
ValidDateVerdict(date, allowFuture, clockDay) ==
    IF ~isValidDateFormat(date) THEN "Invalid format"
    ELSE IF ~isValidDate(date) THEN "Invalid date"
    ELSE IF ~allowFuture /\ isDateInFuture(date, clockDay)
    THEN "Date cannot be in the future"
    ELSE "ok"

\* One pass of the loop of promptForDateRange on an end date typed; the
\* date is read by promptForValidDate with allowFuture left at false.
EndDateVerdict(startDate, date, clockDay) ==
    IF ValidDateVerdict(date, FALSE, clockDay) # "ok"
    THEN ValidDateVerdict(date, FALSE, clockDay)
    ELSE IF startDate = date THEN "End date must be different from start date"
    ELSE IF ~isValidDateRange(startDate, date)
    THEN "End date must be after the start date"
    ELSE "ok"

\* ------------------------------------------------- the collaborators' world

\* Start strings of the orchestrator model: two instants one millisecond
\* apart, the first also written with a numeric offset, and an unparsable one.
StartA == TsZ(TicksPerMs)
StartAOffset == TsOff(2 * TicksPerMs, 1)
StartC == TsZ(2 * TicksPerMs)

IssueOf(url) == Some([self |-> url, key |-> Undefined, summary |-> Undefined])

\* The records SourceFetch may return (data.results of the Tempo API).
SourceWorklogs ==
    {[tempoWorklogId |-> 1, issue |-> IssueOf("https://x/issue/1"),
      timeSpentSeconds |-> 3600, billableSeconds |-> 3600,
      startDateTimeUtc |-> StartA, description |-> Some(Text("fix bug"))],
     [tempoWorklogId |-> 2, issue |-> IssueOf("https://x/issue/9"),
      timeSpentSeconds |-> 3600, billableSeconds |-> 1800,
      startDateTimeUtc |-> StartA, description |-> Some(Text(" review "))],
     [tempoWorklogId |-> 3, issue |-> Undefined,
      timeSpentSeconds |-> 900, billableSeconds |-> 0,
      startDateTimeUtc |-> StartC, description |-> Some(Text("call"))],
     [tempoWorklogId |-> 4, issue |-> Undefined,
      timeSpentSeconds |-> 600, billableSeconds |-> 600,
      startDateTimeUtc |-> TsInvalid, description |-> Undefined]}

\* The records SinkFetch may return (only `start' is read).
SinkEntries ==
    {[id |-> 11, start |-> StartAOffset],
     [id |-> 12, start |-> StartC],
     [id |-> 13, start |-> TsInvalid]}

\* What a successful issue lookup returns for a URL: data.key || "" and
\* data.fields?.summary || "".
JiraDetails(url) ==
    IF url = "https://x/issue/1"
    THEN [key |-> "WEB-1", summary |-> "Login page"]
    ELSE [key |-> "", summary |-> "No key"]

\* Error messages of the failing collaborators.
SourceFetchErrors == {"Failed to fetch Tempo worklogs: 500 Internal Server Error - "}
LookupErrors == {"Failed to fetch Jira issue: 404 Not Found - "}
SinkFetchErrors == {"Failed to fetch Toggl time entries: 403 Forbidden - "}
CreateErrors ==
    {"Failed to create time entry: 400 Bad Request - ",
     "Failed to create time entry: 429 Too Many Requests - "}

\* The transform configurations a SyncService is constructed with.
TransformConfigs ==
    {[workspace_id |-> 123, project_id |-> Undefined, task_id |-> Undefined,
      created_with |-> "tempo-to-toggl-sync"],
     [workspace_id |-> 123, project_id |-> Some(456), task_id |-> Undefined,
      created_with |-> "tempo-to-toggl-sync"]}

\* ------------------------------------------------------------------- state

VARIABLES
    transformConfig,     \* SyncServiceConfig.transformConfig
    pc,                  \* where syncTimeEntries stands
    tempoWorklogs,       \* result of fetchWorklogs
    lookupUrls,          \* Array.from(uniqueIssueUrls) of the enrichment
    pendingLookups,      \* lookups (indices of lookupUrls) still in flight
    issueDetailsMap,     \* Map url -> details of the enrichment
    enrichedWorklogs,    \* result of enrichWorklogsWithIssueDetails
    togglEntries,        \* result of fetchTimeEntries
    deduplicationResult, \* result of filterDuplicateEntries
    createIndex,         \* position of the creation loop in uniqueEntries
    createResult,        \* CreateEntriesResult being accumulated
    errors,              \* the errors array of syncTimeEntries
    result,              \* the SyncResult returned, once returned
    escaped,             \* the error thrown to the caller, if any
    calls,               \* collaborator calls issued and settled, in order
    dNewEntries,         \* standalone filterDuplicateEntries: newEntries
    dExistingEntries,    \* standalone filterDuplicateEntries: existingEntries
    dOutcome,            \* standalone filterDuplicateEntries: its outcome
    nTimestamps,         \* standalone normalizeTimestamp: the two strings
    nOutcomes,           \* standalone normalizeTimestamp: their outcomes
    tWorklog,            \* standalone transformTempoWorklogToToggl: worklog
    tConfig,             \* standalone transformTempoWorklogToToggl: config
    tPayload,            \* standalone transformTempoWorklogToToggl: payload
    bWorklogs,           \* standalone transformTempoWorklogsToToggl: worklogs
    bConfig,             \* standalone transformTempoWorklogsToToggl: config
    bPayloads,           \* standalone transformTempoWorklogsToToggl: payloads
    firstRun,            \* what an earlier run of syncTimeEntries left behind
    env,                 \* the environment variables read by loadConfig
    cOutcome,            \* the outcome of loadConfig, once called
    today,               \* the calendar day of the clock (a day number)
    pPc,                 \* where promptForDateRange stands
    pStartDate,          \* promptForDateRange: the accepted start date
    pEndDate,            \* promptForDateRange: the accepted end date
    pLast                \* promptForDateRange: the last input and its verdict

syncVars == <<transformConfig, pc, tempoWorklogs, lookupUrls, pendingLookups,
              issueDetailsMap, enrichedWorklogs, togglEntries,
              deduplicationResult, createIndex, createResult, errors, result,
              escaped, calls>>
dedupVars == <<dNewEntries, dExistingEntries, dOutcome>>
normVars == <<nTimestamps, nOutcomes>>
transformVars == <<tWorklog, tConfig, tPayload>>
batchVars == <<bWorklogs, bConfig, bPayloads>>
\* The variables of the standalone calls, and those outside one run.
configVars == <<env, cOutcome>>
promptVars == <<today, pPc, pStartDate, pEndDate, pLast>>
pureVars == <<dedupVars, normVars, transformVars, batchVars, configVars,
              promptVars>>
restVars == <<pureVars, firstRun>>
vars == <<syncVars, restVars>>

EmptyMap == [u \in {} |-> EmptyDetails]
EmptyCreateResult ==
    [success |-> <<>>, failed |-> <<>>, successCount |-> 0, failedCount |-> 0]
EmptyDeduplicationResult == DeduplicationResult(<<>>, <<>>)

\* A logged event: the call, whether it is issued or settles, the position of
\* its argument (lookup URL or unique entry; 0 for the fetches) and, for a
\* settlement, "ok" or the message of the rejection.
Issue(call, arg) == [call |-> call, ev |-> "issue", arg |-> arg, out |-> ""]
Settle(call, arg, out) == [call |-> call, ev |-> "settle", arg |-> arg, out |-> out]

SyncInit ==
    /\ transformConfig \in TransformConfigs
    /\ pc = "idle"
    /\ tempoWorklogs = <<>>
    /\ lookupUrls = <<>>
    /\ pendingLookups = {}
    /\ issueDetailsMap = EmptyMap
    /\ enrichedWorklogs = <<>>
    /\ togglEntries = <<>>
    /\ deduplicationResult = EmptyDeduplicationResult
    /\ createIndex = 0
    /\ createResult = EmptyCreateResult
    /\ errors = <<>>
    /\ result = Undefined
    /\ escaped = Undefined
    /\ calls = <<>>

DedupIdle ==
    /\ dNewEntries = <<>>
    /\ dExistingEntries = <<>>
    /\ dOutcome = Undefined

NormIdle ==
    /\ nTimestamps = <<>>
    /\ nOutcomes = Undefined

TransformIdle ==
    /\ tWorklog = Undefined
    /\ tConfig = Undefined
    /\ tPayload = Undefined

BatchIdle ==
    /\ bWorklogs = <<>>
    /\ bConfig = Undefined
    /\ bPayloads = Undefined

\* No run of syncTimeEntries has completed before this one.
NoFirstRun == firstRun = Undefined

ConfigIdle ==
    /\ env = Undefined
    /\ cOutcome = Undefined

PromptIdle ==
    /\ today = 0
    /\ pPc = "off"
    /\ pStartDate = Undefined
    /\ pEndDate = Undefined
    /\ pLast = Undefined

\* The orchestrator, main and the prompt at rest, for the specifications of
\* the standalone calls.
SyncIdle ==
    /\ SyncInit
    /\ transformConfig.project_id = Undefined
    /\ NoFirstRun
    /\ ConfigIdle /\ PromptIdle

\* ------------------------------------------------------------ orchestrator

\* Mutant: only the two fetches are guarded by the try block.
TryStagesFetchesOnly == {"fetchingSource", "fetchingSink"}

\* The stages of syncTimeEntries that lie inside its try block.
TryStages ==
    {"fetchingSource", "enriching", "fetchingSink", "transforming",
     "deduplicating", "creating"}

\* Mutant: the failure result keeps the number of records already fetched.
ZeroResultKeepsFetched(errs) ==
    [tempoEntriesFetched |-> Len(tempoWorklogs), togglEntriesFetched |-> 0,
     uniqueEntries |-> 0, duplicatesSkipped |-> 0, successfullyCreated |-> 0,
     failedToCreate |-> 0, errors |-> errs]

ZeroResult(errs) ==
    [tempoEntriesFetched |-> 0, togglEntriesFetched |-> 0, uniqueEntries |-> 0,
     duplicatesSkipped |-> 0, successfullyCreated |-> 0, failedToCreate |-> 0,
     errors |-> errs]

\* The errors array after the catch block has pushed the caught error.
CaughtErrors(errs, e) == Append(errs, MessageOr(e, "Unknown error occurred"))

\* An error e is thrown while syncTimeEntries is at `stage': inside the try
\* block the catch block returns the zero-valued result, elsewhere the
\* error reaches the caller.
Raise(stage, e) ==
    IF stage \in TryStages
    THEN /\ errors' = CaughtErrors(errors, e)
         /\ result' = Some(ZeroResult(errors'))
         /\ pc' = "failed"
         /\ UNCHANGED escaped
    ELSE /\ escaped' = Some(e)
         /\ pc' = "thrown"
         /\ UNCHANGED <<errors, result>>

\* Mutant: the failure message is collected without the prefix.
CreateErrorLineRaw(f) == f.error

\* `Failed to create entry: ${f.error}'
CreateErrorLine(f) == "Failed to create entry: " \o f.error

\* The errors collected from createResult.failed.
CollectErrors(errs, cr) ==
    errs \o [i \in DOMAIN cr.failed |-> CreateErrorLine(cr.failed[i])]

\* Mutant: the two fetch counters are swapped.
SuccessResultSwapped(tw, te, dr, cr, errs) ==
    [tempoEntriesFetched |-> Len(te),
     togglEntriesFetched |-> Len(tw),
     uniqueEntries |-> Len(dr.uniqueEntries),
     duplicatesSkipped |-> dr.skippedCount,
     successfullyCreated |-> cr.successCount,
     failedToCreate |-> cr.failedCount,
     errors |-> errs]

SuccessResult(tw, te, dr, cr, errs) ==
    [tempoEntriesFetched |-> Len(tw),
     togglEntriesFetched |-> Len(te),
     uniqueEntries |-> Len(dr.uniqueEntries),
     duplicatesSkipped |-> dr.skippedCount,
     successfullyCreated |-> cr.successCount,
     failedToCreate |-> cr.failedCount,
     errors |-> errs]

\* createTimeEntries has returned cr: collect the errors and return.
Return(tw, te, dr, cr) ==
    /\ errors' = CollectErrors(errors, cr)
    /\ result' = Some(SuccessResult(tw, te, dr, cr, errors'))
    /\ pc' = "done"
    /\ UNCHANGED escaped

\* The caller invokes syncTimeEntries: fetchWorklogs is issued.
SyncTimeEntries ==
    /\ pc = "idle"
    /\ pc' = "fetchingSource"
    /\ errors' = <<>>
    /\ calls' = Append(calls, Issue("SourceFetch", 0))
    /\ UNCHANGED <<transformConfig, tempoWorklogs, lookupUrls, pendingLookups,
                   issueDetailsMap, enrichedWorklogs, togglEntries,
                   deduplicationResult, createIndex, createResult, result,
                   escaped>>
    /\ UNCHANGED restVars

\* fetchWorklogs resolves with ws: enrichment collects the distinct URLs and
\* issues one lookup per URL; with no URL it completes at once and
\* fetchTimeEntries is issued.
SourceFetchResolves(ws) ==
    /\ pc = "fetchingSource"
    /\ LET urls == uniqueIssueUrls(ws) IN
         /\ tempoWorklogs' = ws
         /\ lookupUrls' = urls
         /\ issueDetailsMap' = EmptyMap
         /\ pendingLookups' = DOMAIN urls
         /\ IF urls = <<>>
            THEN /\ enrichedWorklogs' = EnrichWorklogs(ws, EmptyMap)
                 /\ pc' = "fetchingSink"
                 /\ calls' = calls \o <<Settle("SourceFetch", 0, "ok"),
                                        Issue("SinkFetch", 0)>>
            ELSE /\ enrichedWorklogs' = <<>>
                 /\ pc' = "enriching"
                 /\ calls' = calls \o <<Settle("SourceFetch", 0, "ok")>>
                                   \o [i \in DOMAIN urls |-> Issue("EntityLookup", i)]
    /\ UNCHANGED <<transformConfig, togglEntries, deduplicationResult,
                   createIndex, createResult, errors, result, escaped>>
    /\ UNCHANGED restVars

\* fetchWorklogs resolves with some list of records.
SourceFetchReturns ==
    \E ws \in SeqUpTo(SourceWorklogs, MaxWorklogs) : SourceFetchResolves(ws)

\* fetchWorklogs rejects.
SourceFetchFails ==
    /\ pc = "fetchingSource"
    /\ \E msg \in SourceFetchErrors :
         /\ Raise("fetchingSource", ErrorOf(msg))
         /\ calls' = Append(calls, Settle("SourceFetch", 0, msg))
    /\ UNCHANGED <<transformConfig, tempoWorklogs, lookupUrls, pendingLookups,
                   issueDetailsMap, enrichedWorklogs, togglEntries,
                   deduplicationResult, createIndex, createResult>>
    /\ UNCHANGED restVars

\* Mutant: the lookups write into one shared details object, so every URL
\* carries what the lookup that settled last recorded.
MapSetShared(map, url, details) ==
    [u \in DOMAIN map \cup {url} |-> details]

\* issueDetailsMap.set(url, details)
MapSet(map, url, details) ==
    [u \in DOMAIN map \cup {url} |-> IF u = url THEN details ELSE map[u]]

\* Mutant: the enrichment continues as soon as the first lookup settles
\* (Promise.race instead of Promise.all).
LookupSettlesRace(i, details, out) ==
    /\ pc = "enriching"
    /\ i \in pendingLookups
    /\ issueDetailsMap' = MapSet(issueDetailsMap, lookupUrls[i], details)
    /\ pendingLookups' = pendingLookups \ {i}
    /\ enrichedWorklogs' = EnrichWorklogs(tempoWorklogs, issueDetailsMap')
    /\ pc' = "fetchingSink"
    /\ calls' = calls \o <<Settle("EntityLookup", i, out), Issue("SinkFetch", 0)>>
    /\ UNCHANGED <<transformConfig, tempoWorklogs, lookupUrls, togglEntries,
                   deduplicationResult, createIndex, createResult, errors,
                   result, escaped>>
    /\ UNCHANGED restVars

\* The lookup of lookupUrls[i] settles and records `details'; when it was the
\* last one pending, Promise.all resolves, the worklogs are enriched and
\* fetchTimeEntries is issued.
LookupSettles(i, details, out) ==
    /\ pc = "enriching"
    /\ i \in pendingLookups
    /\ issueDetailsMap' = MapSet(issueDetailsMap, lookupUrls[i], details)
    /\ pendingLookups' = pendingLookups \ {i}
    /\ IF pendingLookups' = {}
       THEN /\ enrichedWorklogs' = EnrichWorklogs(tempoWorklogs, issueDetailsMap')
            /\ pc' = "fetchingSink"
            /\ calls' = calls \o <<Settle("EntityLookup", i, out),
                                   Issue("SinkFetch", 0)>>
       ELSE /\ calls' = Append(calls, Settle("EntityLookup", i, out))
            /\ UNCHANGED <<enrichedWorklogs, pc>>
    /\ UNCHANGED <<transformConfig, tempoWorklogs, lookupUrls, togglEntries,
                   deduplicationResult, createIndex, createResult, errors,
                   result, escaped>>
    /\ UNCHANGED restVars

\* fetchJiraIssue resolves.
LookupReturns ==
    \E i \in pendingLookups : LookupSettles(i, JiraDetails(lookupUrls[i]), "ok")

\* Mutant: the lookup has no catch block, its rejection rejects Promise.all
\* and with it the enrichment.
LookupFailsRejects ==
    \E i \in pendingLookups, msg \in LookupErrors :
        /\ pc = "enriching"
        /\ Raise("enriching", ErrorOf(msg))
        /\ pendingLookups' = pendingLookups \ {i}
        /\ calls' = Append(calls, Settle("EntityLookup", i, msg))
        /\ UNCHANGED <<transformConfig, tempoWorklogs, lookupUrls,
                       issueDetailsMap, enrichedWorklogs, togglEntries,
                       deduplicationResult, createIndex, createResult>>
        /\ UNCHANGED restVars

\* fetchJiraIssue rejects: the catch block of the lookup records empty details.
LookupFails ==
    \E i \in pendingLookups, msg \in LookupErrors :
        LookupSettles(i, EmptyDetails, msg)

\* fetchTimeEntries resolves with es: transform, deduplicate, then either
\* issue the first creation or, with nothing to create, return.
SinkFetchResolves(es) ==
    /\ pc = "fetchingSink"
    /\ LET transformedEntries ==
                 transformTempoWorklogsToToggl(enrichedWorklogs, transformConfig)
             dr == filterDuplicateEntries(transformedEntries, es)
         IN
         /\ togglEntries' = es
         /\ IF ~dr.ok
            THEN /\ Raise("deduplicating", dr.error)
                 /\ calls' = Append(calls, Settle("SinkFetch", 0, "ok"))
                 /\ UNCHANGED <<deduplicationResult, createIndex, createResult>>
            ELSE /\ deduplicationResult' = dr.value
                 /\ createResult' = EmptyCreateResult
                 /\ IF dr.value.uniqueEntries = <<>>
                    THEN /\ Return(tempoWorklogs, es, dr.value, EmptyCreateResult)
                         /\ calls' = Append(calls, Settle("SinkFetch", 0, "ok"))
                         /\ UNCHANGED createIndex
                    ELSE /\ pc' = "creating"
                         /\ createIndex' = 1
                         /\ calls' = calls \o <<Settle("SinkFetch", 0, "ok"),
                                                Issue("SinkCreate", 1)>>
                         /\ UNCHANGED <<errors, result, escaped>>
    /\ UNCHANGED <<transformConfig, tempoWorklogs, lookupUrls, pendingLookups,
                   issueDetailsMap, enrichedWorklogs>>
    /\ UNCHANGED restVars

\* fetchTimeEntries resolves with some list of entries.
SinkFetchReturns ==
    \E es \in SeqUpTo(SinkEntries, MaxSink) : SinkFetchResolves(es)

\* fetchTimeEntries rejects.
SinkFetchFails ==
    /\ pc = "fetchingSink"
    /\ \E msg \in SinkFetchErrors :
         /\ Raise("fetchingSink", ErrorOf(msg))
         /\ calls' = Append(calls, Settle("SinkFetch", 0, msg))
    /\ UNCHANGED <<transformConfig, tempoWorklogs, lookupUrls, pendingLookups,
                   issueDetailsMap, enrichedWorklogs, togglEntries,
                   deduplicationResult, createIndex, createResult>>
    /\ UNCHANGED restVars

\* The entry the sink answers a successful creation with.
CreatedEntry(entry, n) ==
    [id |-> n, workspace_id |-> entry.workspace_id, billable |-> entry.billable,
     start |-> entry.start, duration |-> entry.duration,
     description |-> entry.description]

\* The try branch of the creation loop body.
RecordSuccess(cr, entry) ==
    [cr EXCEPT !.success = Append(@, CreatedEntry(entry, Len(@) + 1)),
               !.successCount = @ + 1]

\* Mutant: the catch branch records the failure without counting it.
RecordFailureUncounted(cr, entry, e) ==
    [cr EXCEPT !.failed = Append(@, [entry |-> entry,
                                     error |-> MessageOr(e, e.message)])]

\* The catch branch of the creation loop body.
RecordFailure(cr, entry, e) ==
    [cr EXCEPT !.failed = Append(@, [entry |-> entry,
                                     error |-> MessageOr(e, e.message)]),
               !.failedCount = @ + 1]

\* The position the creation loop moves to after entry i.
NextCreateIndex(i) == i + 1

\* Mutant: the next creation is issued before the one in flight has settled.
CreateSettlesOverlap(cr, out) ==
    LET next == NextCreateIndex(createIndex) IN
    /\ createResult' = cr
    /\ createIndex' = next
    /\ IF next \in DOMAIN deduplicationResult.uniqueEntries
       THEN /\ calls' = calls \o <<Issue("SinkCreate", next),
                                   Settle("SinkCreate", createIndex, out)>>
            /\ UNCHANGED <<pc, errors, result, escaped>>
       ELSE /\ calls' = Append(calls, Settle("SinkCreate", createIndex, out))
            /\ Return(tempoWorklogs, togglEntries, deduplicationResult, cr)
    /\ UNCHANGED <<transformConfig, tempoWorklogs, lookupUrls, pendingLookups,
                   issueDetailsMap, enrichedWorklogs, togglEntries,
                   deduplicationResult>>
    /\ UNCHANGED restVars

\* The creation in flight has settled and cr is the accumulated result: the
\* loop issues the next creation, or createTimeEntries returns.
CreateSettles(cr, out) ==
    LET next == NextCreateIndex(createIndex) IN
    /\ createResult' = cr
    /\ createIndex' = next
    /\ IF next \in DOMAIN deduplicationResult.uniqueEntries
       THEN /\ calls' = calls \o <<Settle("SinkCreate", createIndex, out),
                                   Issue("SinkCreate", next)>>
            /\ UNCHANGED <<pc, errors, result, escaped>>
       ELSE /\ calls' = Append(calls, Settle("SinkCreate", createIndex, out))
            /\ Return(tempoWorklogs, togglEntries, deduplicationResult, cr)
    /\ UNCHANGED <<transformConfig, tempoWorklogs, lookupUrls, pendingLookups,
                   issueDetailsMap, enrichedWorklogs, togglEntries,
                   deduplicationResult>>
    /\ UNCHANGED restVars

\* createTimeEntry resolves.
CreateReturns ==
    /\ pc = "creating"
    /\ CreateSettles(RecordSuccess(createResult,
                        deduplicationResult.uniqueEntries[createIndex]), "ok")

\* Mutant: a rejected creation is not caught by the loop and reaches the
\* catch block of syncTimeEntries.
CreateFailsUncaught ==
    /\ pc = "creating"
    /\ \E msg \in CreateErrors :
         /\ Raise("creating", ErrorOf(msg))
         /\ calls' = Append(calls, Settle("SinkCreate", createIndex, msg))
    /\ UNCHANGED <<transformConfig, tempoWorklogs, lookupUrls, pendingLookups,
                   issueDetailsMap, enrichedWorklogs, togglEntries,
                   deduplicationResult, createIndex, createResult>>
    /\ UNCHANGED restVars

\* Mutant: the loop stops at the first rejected creation.
CreateFailsAborts ==
    /\ pc = "creating"
    /\ \E msg \in CreateErrors :
         LET cr == RecordFailure(createResult,
                       deduplicationResult.uniqueEntries[createIndex],
                       ErrorOf(msg))
         IN  /\ createResult' = cr
             /\ calls' = Append(calls, Settle("SinkCreate", createIndex, msg))
             /\ Return(tempoWorklogs, togglEntries, deduplicationResult, cr)
    /\ UNCHANGED <<transformConfig, tempoWorklogs, lookupUrls, pendingLookups,
                   issueDetailsMap, enrichedWorklogs, togglEntries,
                   deduplicationResult, createIndex>>
    /\ UNCHANGED restVars

\* createTimeEntry rejects.
CreateFails ==
    /\ pc = "creating"
    /\ \E msg \in CreateErrors :
         CreateSettles(RecordFailure(createResult,
                          deduplicationResult.uniqueEntries[createIndex],
                          ErrorOf(msg)), msg)

Init ==
    /\ SyncInit
    /\ DedupIdle /\ NormIdle /\ TransformIdle /\ BatchIdle
    /\ ConfigIdle /\ PromptIdle
    /\ NoFirstRun

Next ==
    \/ SyncTimeEntries
    \/ SourceFetchReturns
    \/ SourceFetchFails
    \/ LookupReturns
    \/ LookupFails
    \/ SinkFetchReturns
    \/ SinkFetchFails
    \/ CreateReturns
    \/ CreateFails

Spec == Init /\ [][Next]_vars

\* ------------------------------------------------------- running it again

\* An entry the sink holds after a creation, as fetchTimeEntries returns it
\* later: the start it was created with, written the sink's way (+00:00).
SinkStoredEntry(created) ==
    [id |-> 20 + created.id, start |-> TsOff(InstantOf(created.start), 0)]

\* What the sink holds after a run: what it returned to the run, and the
\* entries the run created.
SinkAfterRun ==
    togglEntries \o [i \in DOMAIN createResult.success |->
                        SinkStoredEntry(createResult.success[i])]

\* A run has returned with every creation succeeding; syncTimeEntries is
\* about to be called again (a fresh SyncService with the same
\* configuration, the same date range).
StartSecondRun ==
    /\ NoFirstRun
    /\ pc = "done"
    /\ createResult.failedCount = 0
    /\ firstRun' = Some([worklogs |-> tempoWorklogs,
                         sink |-> SinkAfterRun,
                         created |-> createResult.successCount])
    /\ pc' = "idle"
    /\ tempoWorklogs' = <<>>
    /\ lookupUrls' = <<>>
    /\ pendingLookups' = {}
    /\ issueDetailsMap' = EmptyMap
    /\ enrichedWorklogs' = <<>>
    /\ togglEntries' = <<>>
    /\ deduplicationResult' = EmptyDeduplicationResult
    /\ createIndex' = 0
    /\ createResult' = EmptyCreateResult
    /\ errors' = <<>>
    /\ result' = Undefined
    /\ escaped' = Undefined
    /\ calls' = <<>>
    /\ UNCHANGED <<transformConfig, pureVars>>

\* A step of the first run.
FirstRunStep == NoFirstRun /\ Next

\* A step of the second run: the source returns the records it returned to
\* the first run, the sink returns what it holds; lookups and creations
\* behave as in any run.
SecondRunStep ==
    /\ ~NoFirstRun
    /\ \/ SyncTimeEntries
       \/ SourceFetchResolves(firstRun[1].worklogs)
       \/ LookupReturns
       \/ LookupFails
       \/ SinkFetchResolves(firstRun[1].sink)
       \/ CreateReturns
       \/ CreateFails

RerunInit == Init /\ transformConfig.project_id = Undefined

RerunNext == FirstRunStep \/ StartSecondRun \/ SecondRunStep

RerunSpec == RerunInit /\ [][RerunNext]_vars

\* ------------------------------------- filterDuplicateEntries on its own

\* Start strings given to filterDuplicateEntries: one instant written in
\* three notations, an instant a fraction of a millisecond later, an instant
\* a whole millisecond later, and an unparsable string.
DedupStarts ==
    {TsZ(TicksPerMs), TsOff(TicksPerMs, 0), TsOff(2 * TicksPerMs, 1),
     TsZ(TicksPerMs + 1), TsZ(2 * TicksPerMs), TsInvalid}

DedupCandidates ==
    {[workspace_id |-> 123, billable |-> TRUE, start |-> st, duration |-> 3600,
      description |-> d, created_with |-> "test"] :
        st \in DedupStarts, d \in {Text("Entry 1"), Text("Entry 2")}}

DedupExisting == {[start |-> st] : st \in DedupStarts}

DedupInit ==
    /\ dNewEntries \in SeqUpTo(DedupCandidates, MaxCandidates)
    /\ dExistingEntries \in SeqUpTo(DedupExisting, MaxExisting)
    /\ dOutcome = Undefined

\* filterDuplicateEntries(dNewEntries, dExistingEntries) is called.
CallFilterDuplicateEntries ==
    /\ dOutcome = Undefined
    /\ dOutcome' = Some(filterDuplicateEntries(dNewEntries, dExistingEntries))
    /\ UNCHANGED <<dNewEntries, dExistingEntries>>
    /\ UNCHANGED <<syncVars, normVars, transformVars, batchVars, firstRun>>
    /\ UNCHANGED <<configVars, promptVars>>

DedupSpecInit ==
    /\ SyncIdle
    /\ DedupInit
    /\ NormIdle /\ TransformIdle /\ BatchIdle

DedupNext == CallFilterDuplicateEntries

DedupSpec == DedupSpecInit /\ [][DedupNext]_vars

\* ----------------------------------------- normalizeTimestamp on its own

\* Zone offsets of the written strings, in milliseconds.
NormOffsets == {-1, 0, 1}

\* Wall-clock readings of the written strings, in ticks.
NormTicks == 0..(2 * TicksPerMs)

\* Timestamp strings given to normalizeTimestamp: every reading with the
\* designator Z and with each numeric offset, and an unparsable string.
NormStarts ==
    {TsZ(t) : t \in NormTicks}
        \cup {TsOff(t, o) : t \in NormTicks, o \in NormOffsets}
        \cup {TsInvalid}

NormCandidate(st) ==
    [workspace_id |-> 123, billable |-> TRUE, start |-> st, duration |-> 3600,
     description |-> Text("Entry 1"), created_with |-> "test"]

\* Two strings are drawn; filterDuplicateEntries gets candidate and existing
\* lists built from them.
NormInit ==
    /\ nTimestamps \in NormStarts \X NormStarts
    /\ nOutcomes = Undefined
    /\ dNewEntries \in {<<NormCandidate(nTimestamps[1])>>,
                         <<NormCandidate(nTimestamps[2]),
                           NormCandidate(nTimestamps[1])>>}
    /\ dExistingEntries \in {<<>>, <<[start |-> nTimestamps[2]]>>}
    /\ dOutcome = Undefined

\* normalizeTimestamp is called on each of the two strings.
CallNormalizeTimestamp ==
    /\ nTimestamps # <<>>
    /\ nOutcomes = Undefined
    /\ nOutcomes' = Some([k \in DOMAIN nTimestamps |->
                              normalizeTimestamp(nTimestamps[k])])
    /\ UNCHANGED nTimestamps
    /\ UNCHANGED <<syncVars, dedupVars, transformVars, batchVars, firstRun>>
    /\ UNCHANGED <<configVars, promptVars>>

NormalizeSpecInit ==
    /\ SyncIdle
    /\ NormInit
    /\ TransformIdle /\ BatchIdle

NormalizeNext == CallNormalizeTimestamp \/ CallFilterDuplicateEntries

NormalizeSpec == NormalizeSpecInit /\ [][NormalizeNext]_vars

\* ------------------------------- transformTempoWorklogToToggl on its own

\* The issue of a worklog: none; an issue as Tempo returns it (URL only); an
\* enriched issue whose lookup failed or found no key; an enriched issue
\* with key and summary; an issue whose URL is the empty string.
TransformIssues ==
    {Undefined,
     IssueOf("https://x/issue/1"),
     Some([self |-> "https://x/issue/1", key |-> Some(""), summary |-> Some("")]),
     Some([self |-> "https://x/issue/1", key |-> Some("WEB-1"),
           summary |-> Some("Login page")]),
     Some([self |-> "", key |-> Undefined, summary |-> Undefined])}

\* Original descriptions: missing, empty, plain, padded with blanks, blank,
\* one with white space of several kinds around it and a line separator
\* within, and one of white space only.
TransformDescriptions ==
    {Undefined, Some(Text("")), Some(Text("fix bug")), Some(Text(" review ")),
     Some(Text(" ")),
     Some(<<"\t", "U+000B">> \o Text("fix") \o <<"U+2028">> \o Text("bug")
              \o <<"U+00A0", "U+2003", "\n">>),
     Some(<<"U+3000", "\r", "U+FEFF">>)}

TransformWorklogs ==
    {[tempoWorklogId |-> 1, issue |-> is, timeSpentSeconds |-> ts,
      billableSeconds |-> bs, startDateTimeUtc |-> st, description |-> de] :
        is \in TransformIssues, ts \in {0, 3600}, bs \in {-60, 0, 1, 3600},
        st \in {StartA, StartAOffset}, de \in TransformDescriptions}

\* Configurations: each optional identifier missing, zero or set; the
\* provenance string empty or set.
AllTransformConfigs ==
    {[workspace_id |-> 123, project_id |-> pr, task_id |-> ta,
      created_with |-> cw] :
        pr \in {Undefined, Some(0), Some(456)},
        ta \in {Undefined, Some(0), Some(789)},
        cw \in {"", "test-suite"}}

TransformInit ==
    /\ tWorklog \in {Some(w) : w \in TransformWorklogs}
    /\ tConfig \in {Some(c) : c \in AllTransformConfigs}
    /\ tPayload = Undefined

\* transformTempoWorklogToToggl(tWorklog, tConfig) is called.
CallTransformWorklog ==
    /\ tWorklog # Undefined
    /\ tPayload = Undefined
    /\ tPayload' = Some(transformTempoWorklogToToggl(tWorklog[1], tConfig[1]))
    /\ UNCHANGED <<tWorklog, tConfig>>
    /\ UNCHANGED <<syncVars, dedupVars, normVars, batchVars, firstRun>>
    /\ UNCHANGED <<configVars, promptVars>>

TransformSpecInit ==
    /\ SyncIdle
    /\ TransformInit
    /\ DedupIdle /\ NormIdle /\ BatchIdle

TransformNext == CallTransformWorklog

TransformSpec == TransformSpecInit /\ [][TransformNext]_vars

\* ------------------------------ transformTempoWorklogsToToggl on its own

\* The records of a batch: those SourceFetch returns, and one whose start is
\* written with a numeric offset.
BatchWorklogs ==
    SourceWorklogs \cup
        {[tempoWorklogId |-> 5, issue |-> Undefined,
          timeSpentSeconds |-> 1200, billableSeconds |-> 0,
          startDateTimeUtc |-> StartAOffset, description |-> Some(Text("standup"))]}

BatchInit ==
    /\ bWorklogs \in SeqUpTo(BatchWorklogs, MaxBatch)
    /\ bConfig \in {Some(c) : c \in TransformConfigs}
    /\ bPayloads = Undefined

\* transformTempoWorklogsToToggl(bWorklogs, bConfig) is called.
CallTransformWorklogs ==
    /\ bConfig # Undefined
    /\ bPayloads = Undefined
    /\ bPayloads' = Some(transformTempoWorklogsToToggl(bWorklogs, bConfig[1]))
    /\ UNCHANGED <<bWorklogs, bConfig>>
    /\ UNCHANGED <<syncVars, dedupVars, normVars, transformVars, firstRun>>
    /\ UNCHANGED <<configVars, promptVars>>

BatchSpecInit ==
    /\ SyncIdle
    /\ BatchInit
    /\ DedupIdle /\ NormIdle /\ TransformIdle

BatchNext == CallTransformWorklogs

BatchSpec == BatchSpecInit /\ [][BatchNext]_vars

\* ------------------------------------------------- loadConfig on its own

\* Environments: every variable unset, empty or set; the workspace id also
\* set to a text without digits, the project id to digits followed by
\* text, the task id to a signed number led by white space.
Environments ==
    [TOGGL_TOKEN : {Undefined, Some(Text("")), Some(Text("toggl-token-123"))},
     TEMPO_TOKEN : {Undefined, Some(Text("")), Some(Text("tempo-token-456"))},
     TOGGL_WORKSPACE_ID : {Undefined, Some(Text("")), Some(Text("12345")),
                           Some(Text("99999")), Some(Text("abc"))},
     TOGGL_PROJECT_ID : {Undefined, Some(Text("")), Some(Text("67890")),
                         Some(Text("54321")), Some(Text("42abc"))},
     TOGGL_TASK_ID : {Undefined, Some(Text("")), Some(Text("789")),
                      Some(<<"U+00A0", "\t">> \o Text("+789"))},
     JIRA_EMAIL : {Undefined, Some(Text("")), Some(Text("user@example.com"))},
     JIRA_API_TOKEN : {Undefined, Some(Text("")), Some(Text("jira-token-789"))}]

ConfigInit ==
    /\ env \in {Some(e) : e \in Environments}
    /\ cOutcome = Undefined

\* loadConfig() is called.
CallLoadConfig ==
    /\ env # Undefined
    /\ cOutcome = Undefined
    /\ cOutcome' = Some(loadConfig(env[1]))
    /\ UNCHANGED env
    /\ UNCHANGED <<syncVars, dedupVars, normVars, transformVars, batchVars,
                   promptVars, firstRun>>

ConfigSpecInit ==
    /\ SyncInit
    /\ transformConfig.project_id = Undefined
    /\ NoFirstRun
    /\ DedupIdle /\ NormIdle /\ TransformIdle /\ BatchIdle /\ PromptIdle
    /\ ConfigInit

ConfigNext == CallLoadConfig

ConfigSpec == ConfigSpecInit /\ [][ConfigNext]_vars

\* ------------------------------------------ promptForDateRange on its own

\* The day of the clock when promptForDateRange is called: 2025-02-28.
FirstDay == DayNumber(2025, 2, 28)

\* A line padded with white space: a byte order mark and a blank before
\* the date, a carriage return and a line feed after it.
PaddedLine == <<"U+FEFF", " ">> \o Text("2025-02-28") \o <<"\r", "\n">>

\* The lines the user may type: days around the first day, a leap day of
\* the year before, the padded line, days that do not exist, and lines that
\* are not of the format.
PromptLines ==
    {Text("2025-02-27"), Text("2025-02-28"), Text("2025-03-01"),
     Text("2025-03-02"), Text("2025-03-03"), Text("2024-02-29"), PaddedLine,
     Text("2025-02-29"), Text("2025-02-31"), Text("2025-02-32"),
     Text("2025-13-01"), Text("2025-00-10"), Text("2025-2-28"),
     Text("tomorrow"), Text("")}

PromptInit ==
    /\ today = FirstDay
    /\ pPc = "start"
    /\ pStartDate = Undefined
    /\ pEndDate = Undefined
    /\ pLast = Undefined

\* What is remembered of a line typed.
Typed(phase, line, verdict) ==
    [phase |-> phase, line |-> line, verdict |-> verdict, today |-> today]

\* The user answers the start-date prompt.
EnterStartDate ==
    /\ pPc = "start"
    /\ \E line \in PromptLines :
         LET date == Trim(line)
             verdict == ValidDateVerdict(date, FALSE, today)
         IN  /\ pLast' = Some(Typed("start", line, verdict))
             /\ IF verdict = "ok"
                THEN pStartDate' = Some(date) /\ pPc' = "end"
                ELSE UNCHANGED <<pStartDate, pPc>>
    /\ UNCHANGED <<today, pEndDate>>
    /\ UNCHANGED <<syncVars, dedupVars, normVars, transformVars, batchVars,
                   configVars, firstRun>>

\* The user answers the end-date prompt.
EnterEndDate ==
    /\ pPc = "end"
    /\ \E line \in PromptLines :
         LET date == Trim(line)
             verdict == EndDateVerdict(pStartDate[1], date, today)
         IN  /\ pLast' = Some(Typed("end", line, verdict))
             /\ IF verdict = "ok"
                THEN pEndDate' = Some(date) /\ pPc' = "returned"
                ELSE UNCHANGED <<pEndDate, pPc>>
    /\ UNCHANGED <<today, pStartDate>>
    /\ UNCHANGED <<syncVars, dedupVars, normVars, transformVars, batchVars,
                   configVars, firstRun>>

\* Standard input ends: promptForDate throws "Failed to read input".
InputEnds ==
    /\ pPc \in {"start", "end"}
    /\ pPc' = "thrown"
    /\ UNCHANGED <<today, pStartDate, pEndDate, pLast>>
    /\ UNCHANGED <<syncVars, dedupVars, normVars, transformVars, batchVars,
                   configVars, firstRun>>

\* Midnight passes while the prompt waits.
Midnight ==
    /\ pPc \in {"start", "end"}
    /\ today < FirstDay + MaxMidnights
    /\ today' = today + 1
    /\ UNCHANGED <<pPc, pStartDate, pEndDate, pLast>>
    /\ UNCHANGED <<syncVars, dedupVars, normVars, transformVars, batchVars,
                   configVars, firstRun>>

PromptSpecInit ==
    /\ SyncInit
    /\ transformConfig.project_id = Undefined
    /\ NoFirstRun
    /\ DedupIdle /\ NormIdle /\ TransformIdle /\ BatchIdle /\ ConfigIdle
    /\ PromptInit

PromptNext == EnterStartDate \/ EnterEndDate \/ InputEnds \/ Midnight

PromptSpec == PromptSpecInit /\ [][PromptNext]_vars

\* ------------------------------------------------- reading the call log

IsIssue(e, call) == e.call = call /\ e.ev = "issue"
IsSettle(e, call) == e.call = call /\ e.ev = "settle"

\* The SinkCreate calls issued so far, and those that have settled.
CreateIssues == SelectSeq(calls, LAMBDA e : IsIssue(e, "SinkCreate"))
CreateSettlements == SelectSeq(calls, LAMBDA e : IsSettle(e, "SinkCreate"))
CreateFailures == SelectSeq(CreateSettlements, LAMBDA e : e.out # "ok")

\* The calls issued before position k of the log and not settled before it.
InFlightBefore(k) ==
    {i \in 1..(k - 1) :
        /\ calls[i].ev = "issue"
        /\ ~\E j \in (i + 1)..(k - 1) :
              /\ calls[j].ev = "settle"
              /\ calls[j].call = calls[i].call
              /\ calls[j].arg = calls[i].arg}

\* The calls in flight now.
InFlight == InFlightBefore(Len(calls) + 1)

\* The position of a collaborator call in the pipeline.
StageRank(call) ==
    CASE call = "SourceFetch" -> 1
      [] call = "EntityLookup" -> 2
      [] call = "SinkFetch" -> 3
      [] call = "SinkCreate" -> 4

SyncResultFields ==
    {"tempoEntriesFetched", "togglEntriesFetched", "uniqueEntries",
     "duplicatesSkipped", "successfullyCreated", "failedToCreate", "errors"}

\* Some start given to the deduplicator is unparsable.
SomeStartUnparsable ==
    \/ \E i \in DOMAIN tempoWorklogs : ~tempoWorklogs[i].startDateTimeUtc.valid
    \/ \E j \in DOMAIN togglEntries : ~togglEntries[j].start.valid

\* ------------------------------------------------------------------ claims

\* C1: syncTimeEntries never raises.  Whatever the collaborators do, no
\* error reaches the caller; the call is either waiting for a collaborator
\* call in flight or has returned a SyncResult (counters and errors list).
C1_NeverRaises ==
    /\ escaped = Undefined
    /\ pc \in {"idle", "fetchingSource", "enriching", "fetchingSink",
               "creating", "done", "failed"}
    /\ (pc \in {"done", "failed"}) <=> (result # Undefined)
    /\ result # Undefined =>
          /\ DOMAIN result[1] = SyncResultFields
          /\ InFlight = {}
    /\ pc \in {"fetchingSource", "enriching", "fetchingSink", "creating"} =>
          InFlight # {}

\* C1 witness: a lookup failed, a start was unparsable, and the call
\* returned a result.
C1_Witness ==
    /\ result # Undefined
    /\ \E k \in DOMAIN calls : IsSettle(calls[k], "EntityLookup") /\ calls[k].out # "ok"
    /\ SomeStartUnparsable

\* C2: a failure before creation (source fetch, sink fetch, an exception of
\* the deduplication) yields the result with six zero counters and exactly
\* one error, the message of the failure; and each such failure does end
\* the run this way.
C2_StageFailureZeroResult ==
    LET last == calls[Len(calls)]
        fetchFailed ==
            \E k \in DOMAIN calls :
                /\ calls[k].call \in {"SourceFetch", "SinkFetch"}
                /\ calls[k].ev = "settle"
                /\ calls[k].out # "ok"
        sinkFetched ==
            \E k \in DOMAIN calls : IsSettle(calls[k], "SinkFetch") /\ calls[k].out = "ok"
    IN
    /\ pc = "failed" =>
          /\ last.ev = "settle"
          /\ last.call \in {"SourceFetch", "SinkFetch"}
          /\ last.out = "ok" => SomeStartUnparsable
          /\ result = Some([tempoEntriesFetched |-> 0,
                            togglEntriesFetched |-> 0,
                            uniqueEntries |-> 0,
                            duplicatesSkipped |-> 0,
                            successfullyCreated |-> 0,
                            failedToCreate |-> 0,
                            errors |-> <<IF last.out = "ok"
                                         THEN "Invalid time value"
                                         ELSE last.out>>])
    /\ fetchFailed => pc = "failed"
    /\ (sinkFetched /\ SomeStartUnparsable) => pc = "failed"

\* C2 witness: the sink fetch failed after the source fetch had returned
\* records.
C2_Witness ==
    /\ pc = "failed"
    /\ Len(tempoWorklogs) >= 2
    /\ calls[Len(calls)].call = "SinkFetch"
    /\ calls[Len(calls)].out # "ok"

\* C3: a run that returns the failure result has issued no SinkCreate; once
\* a SinkCreate has been issued the run is creating or has returned on the
\* success path, with the counters of the run.
C3_FailsBeforeAnyCreation ==
    /\ pc = "failed" => CreateIssues = <<>>
    /\ CreateIssues # <<>> =>
          /\ pc \in {"creating", "done"}
          /\ escaped = Undefined
          /\ result # Undefined =>
                /\ result[1].uniqueEntries = Len(deduplicationResult.uniqueEntries)
                /\ result[1].uniqueEntries > 0
                /\ result[1].tempoEntriesFetched = Len(tempoWorklogs)

\* C3 witness: every creation of a run with two or more unique entries
\* failed and the run returned on the success path.
C3_Witness ==
    /\ pc = "done"
    /\ Len(CreateIssues) >= 2
    /\ Len(CreateFailures) = Len(CreateIssues)

\* C4: the calls are issued in the order SourceFetch, lookups, SinkFetch,
\* SinkCreate; when a call is issued, the only calls still in flight are
\* calls of its own stage (so SinkFetch waits for every lookup to settle);
\* after a failed SourceFetch nothing else is issued.
C4_StageOrder ==
    /\ calls # <<>> => IsIssue(calls[1], "SourceFetch")
    /\ \A k \in 1..(Len(calls) - 1) :
          StageRank(calls[k].call) <= StageRank(calls[k + 1].call)
    /\ \A k \in DOMAIN calls :
          calls[k].ev = "issue" =>
             \A i \in InFlightBefore(k) :
                 StageRank(calls[i].call) = StageRank(calls[k].call)
    /\ \A k \in DOMAIN calls :
          (IsSettle(calls[k], "SourceFetch") /\ calls[k].out # "ok") =>
             Len(calls) = k
    /\ \A k \in DOMAIN calls :
          IsIssue(calls[k], "SinkFetch") =>
             \A i \in DOMAIN lookupUrls :
                 \E j \in 1..(k - 1) :
                     IsSettle(calls[j], "EntityLookup") /\ calls[j].arg = i

\* C4 witness: two lookups settled in the reverse of the order they were
\* issued in, one of them failing, and the run went on to create.
C4_Witness ==
    /\ CreateIssues # <<>>
    /\ \E j, k \in DOMAIN calls :
          /\ j < k
          /\ IsSettle(calls[j], "EntityLookup") /\ calls[j].arg = 2
          /\ IsSettle(calls[k], "EntityLookup") /\ calls[k].arg = 1
          /\ calls[j].out # "ok"

\* C5: every payload a SinkCreate was issued for starts at a normalised
\* instant (whole milliseconds) that no record returned by SinkFetch has.
C5_NoDuplicateCreated ==
    \A k \in DOMAIN calls :
        IsIssue(calls[k], "SinkCreate") =>
           LET payload == deduplicationResult.uniqueEntries[calls[k].arg] IN
           /\ payload.start.valid
           /\ \A j \in DOMAIN togglEntries :
                 /\ togglEntries[j].start.valid
                 /\ DateParse(payload.start).ms # DateParse(togglEntries[j].start).ms

\* C5 witness: the sink held an entry, a candidate was skipped as its
\* duplicate and another one was created.
C5_Witness ==
    /\ CreateIssues # <<>>
    /\ togglEntries # <<>>
    /\ deduplicationResult.skippedCount > 0

\* C6: with n unique entries of which k creations failed, the result counts
\* n - k successes and k failures and lists exactly the k lines
\* "Failed to create entry: {message}", in the order of the failures.
C6_CreationFailuresAggregated ==
    pc = "done" =>
       LET n == Len(deduplicationResult.uniqueEntries)
           failures == CreateFailures
           k == Len(failures)
       IN  /\ result[1].uniqueEntries = n
           /\ result[1].successfullyCreated = n - k
           /\ result[1].failedToCreate = k
           /\ result[1].errors =
                 [i \in 1..k |-> "Failed to create entry: " \o failures[i].out]

\* C6 witness: three unique entries, the first and the third creation
\* failed with different messages, the second succeeded.
C6_Witness ==
    /\ pc = "done"
    /\ Len(CreateSettlements) = 3
    /\ CreateSettlements[1].out # "ok"
    /\ CreateSettlements[2].out = "ok"
    /\ CreateSettlements[3].out # "ok"
    /\ CreateSettlements[1].out # CreateSettlements[3].out

\* C7: SinkCreate is issued exactly once for each unique entry: while the
\* loop runs, for the entries up to its position; at the end, for all of
\* them, whatever failed.
C7_OneAttemptPerUniqueEntry ==
    LET n == Len(deduplicationResult.uniqueEntries)
        issued == CreateIssues
        attempts(i) == Cardinality({k \in DOMAIN issued : issued[k].arg = i})
    IN
    /\ \A k \in DOMAIN issued : issued[k].arg \in 1..n
    /\ \A i \in 1..n : attempts(i) <= 1
    /\ pc = "creating" => \A i \in 1..n : attempts(i) = (IF i <= createIndex THEN 1 ELSE 0)
    /\ pc = "done" => \A i \in 1..n : attempts(i) = 1

\* C7 witness: the first creation failed and the entries after it were
\* attempted all the same.
C7_Witness ==
    /\ pc = "done"
    /\ Len(CreateSettlements) >= 2
    /\ CreateSettlements[1].out # "ok"
    /\ CreateSettlements[Len(CreateSettlements)].out = "ok"

\* C8: creation is sequential: when a SinkCreate is issued every earlier
\* one has settled, so at most one is in flight, and the m-th call issued
\* is for the m-th unique entry.
C8_SequentialCreation ==
    /\ \A k \in DOMAIN calls :
          IsIssue(calls[k], "SinkCreate") => InFlightBefore(k) = {}
    /\ Cardinality({i \in InFlight : calls[i].call = "SinkCreate"}) <= 1
    /\ LET issued == CreateIssues IN
       \A m \in DOMAIN issued : issued[m].arg = m
    /\ LET settled == CreateSettlements IN
       \A m \in DOMAIN settled : settled[m].arg = m

\* C8 witness: the third creation is in flight after the first two settled.
C8_Witness ==
    /\ pc = "creating"
    /\ Len(CreateIssues) = 3
    /\ Len(CreateSettlements) = 2

\* The subsequence of s at the positions in S, in the order of s.
Pick(s, S) ==
    LET F[k \in 0..Len(s)] ==
            IF k = 0 THEN <<>>
            ELSE IF k \in S THEN Append(F[k - 1], s[k]) ELSE F[k - 1]
    IN  F[Len(s)]

\* The call of filterDuplicateEntries returned a DeduplicationResult.
DedupReturned == dOutcome # Undefined /\ dOutcome[1].ok

\* A DeduplicationResult classifies each candidate by `SameStart': the
\* duplicates are exactly the candidates whose start is SameStart as the
\* start of some existing entry, the unique entries are exactly the others.
ClassifiesBy(SameStart(_, _)) ==
    DedupReturned =>
       \A i \in DOMAIN dNewEntries :
          LET c == dNewEntries[i]
              matches == \E j \in DOMAIN dExistingEntries :
                             SameStart(c.start, dExistingEntries[j].start)
          IN  /\ (c \in Range(dOutcome[1].value.duplicates)) <=> matches
              /\ (c \in Range(dOutcome[1].value.uniqueEntries)) <=> ~matches

\* The two strings denote the same instant.
SameInstant(a, b) == InstantOf(a) = InstantOf(b)

\* The two strings denote instants of the same whole millisecond.
SameMillisecond(a, b) ==
    InstantOf(a) \div TicksPerMs = InstantOf(b) \div TicksPerMs

\* C9 as stated: a candidate is a duplicate iff its start denotes exactly
\* the instant of some existing start; instants that differ at all never
\* match.
C9_ExactInstant == ClassifiesBy(SameInstant)

\* C9 amended: a candidate is a duplicate iff its start denotes an instant
\* of the same whole millisecond as some existing start, whatever notation
\* either uses; instants of different milliseconds never match.
C9_SameMillisecond == ClassifiesBy(SameMillisecond)

\* C9 witness: a candidate matched an existing entry written in another
\* notation, and a candidate one millisecond later than it did not match.
C9_Witness ==
    /\ DedupReturned
    /\ \E i, k \in DOMAIN dNewEntries, j \in DOMAIN dExistingEntries :
          /\ dNewEntries[i] \in Range(dOutcome[1].value.duplicates)
          /\ dNewEntries[i].start # dExistingEntries[j].start
          /\ SameInstant(dNewEntries[i].start, dExistingEntries[j].start)
          /\ dNewEntries[k] \in Range(dOutcome[1].value.uniqueEntries)
          /\ InstantOf(dNewEntries[k].start)
                = InstantOf(dExistingEntries[j].start) + TicksPerMs

\* C10: the result is an order-preserving partition of the candidates:
\* uniqueEntries and duplicates are the subsequences of the candidates at
\* two complementary sets of positions, and skippedCount is the length of
\* duplicates.
C10_OrderPreservingPartition ==
    DedupReturned =>
       LET r == dOutcome[1].value
           all == DOMAIN dNewEntries
       IN  /\ \E S \in SUBSET all :
                 /\ r.uniqueEntries = Pick(dNewEntries, S)
                 /\ r.duplicates = Pick(dNewEntries, all \ S)
           /\ r.skippedCount = Len(r.duplicates)

\* C10 witness: of two candidates the first is a duplicate and the second
\* unique.
C10_Witness ==
    /\ DedupReturned
    /\ Len(dNewEntries) = 2
    /\ dOutcome[1].value.duplicates = <<dNewEntries[1]>>
    /\ dOutcome[1].value.uniqueEntries = <<dNewEntries[2]>>
    /\ dOutcome[1].value.skippedCount = 1

\* The two strings given to normalizeTimestamp are valid, are written in
\* different notations and denote the same instant.
SameInstantDifferentNotation ==
    /\ nTimestamps # <<>>
    /\ nTimestamps[1].valid /\ nTimestamps[2].valid
    /\ nTimestamps[1] # nTimestamps[2]
    /\ InstantOf(nTimestamps[1]) = InstantOf(nTimestamps[2])

\* C11: normalizeTimestamp maps two valid timestamps that denote the same
\* instant in different offset notations to the same normalized value: both
\* calls return, and they return equal strings.
C11_SameInstantSameValue ==
    (nOutcomes # Undefined /\ SameInstantDifferentNotation)
        => /\ nOutcomes[1][1].ok /\ nOutcomes[1][2].ok
           /\ nOutcomes[1][1].value = nOutcomes[1][2].value

\* The instant 1.5 ms written with Z and with a numeric offset other than
\* zero has been normalized.
C11_Witness ==
    /\ nOutcomes # Undefined
    /\ SameInstantDifferentNotation
    /\ nTimestamps[1].notation = "Z"
    /\ nTimestamps[2].notation = "offset" /\ nTimestamps[2].off # 0
    /\ InstantOf(nTimestamps[1]) % TicksPerMs # 0

\* Some start given to the standalone filterDuplicateEntries is unparsable.
SomeDedupStartUnparsable ==
    \/ \E i \in DOMAIN dNewEntries : ~dNewEntries[i].start.valid
    \/ \E j \in DOMAIN dExistingEntries : ~dExistingEntries[j].start.valid

\* C12: normalizing an unparsable string fails with an error that reaches
\* the caller.  normalizeTimestamp returns no value for an unparsable string
\* but throws an Error; filterDuplicateEntries given a candidate or an
\* existing entry with an unparsable start throws that Error and returns no
\* DeduplicationResult, whatever it has classified before.
C12_UnparsablePropagates ==
    /\ nOutcomes # Undefined =>
          \A k \in DOMAIN nTimestamps :
              ~nTimestamps[k].valid =>
                  /\ ~nOutcomes[1][k].ok
                  /\ "value" \notin DOMAIN nOutcomes[1][k]
                  /\ nOutcomes[1][k].error.isError
    /\ (dOutcome # Undefined /\ SomeDedupStartUnparsable) =>
          /\ ~dOutcome[1].ok
          /\ "value" \notin DOMAIN dOutcome[1]
          /\ dOutcome[1].error.isError

\* Both calls have been made; the second of two candidates is unparsable
\* (the first one is valid and has been classified before the failure).
C12_Witness ==
    /\ nOutcomes # Undefined /\ dOutcome # Undefined
    /\ Len(dNewEntries) = 2
    /\ dNewEntries[1].start.valid /\ ~dNewEntries[2].start.valid
    /\ ~nOutcomes[1][1].ok
    /\ ~dOutcome[1].ok

\* The original descriptions as they read once their white space is
\* removed, written out one by one: on both sides (whole), and at the end
\* only (tail), which is what remains of a description that follows a
\* prefix.
DescriptionsTrimmed ==
    [d \in TransformDescriptions |->
        CASE d \in {Undefined, Some(Text("")), Some(Text(" ")),
                    Some(<<"U+3000", "\r", "U+FEFF">>)} ->
                 [whole |-> Text(""), tail |-> Text("")]
          [] d = Some(Text("fix bug")) ->
                 [whole |-> Text("fix bug"), tail |-> Text("fix bug")]
          [] d = Some(Text(" review ")) ->
                 [whole |-> Text("review"), tail |-> Text(" review")]
          [] OTHER ->
                 [whole |-> Text("fix") \o <<"U+2028">> \o Text("bug"),
                  tail |-> <<"\t", "U+000B">> \o Text("fix") \o <<"U+2028">>
                               \o Text("bug")]]

\* A prefix followed by the original description, trimmed: without a
\* description left, the prefix ends at its last character that is not
\* white space.
Prefixed(prefix, separator, bare, trimmed) ==
    IF trimmed.whole = Text("")
    THEN Text(prefix) \o Text(bare)
    ELSE Text(prefix) \o Text(separator) \o trimmed.tail

HasResolvedKey ==
    /\ tWorklog[1].issue # Undefined
    /\ tWorklog[1].issue[1].key \notin {Undefined, Some("")}

HasReferenceUri ==
    /\ tWorklog[1].issue # Undefined
    /\ tWorklog[1].issue[1].self # ""

\* C13: the description follows a strict priority.  With a non-empty
\* resolved key it is "{key}: {original description}"; otherwise, with a
\* reference URI, it is "{uri} | {original description}"; otherwise it is
\* the original description; a missing original description counts as the
\* empty string; leading and trailing white space of the result is removed.
C13_DescriptionPriority ==
    tPayload # Undefined =>
        LET trimmed == DescriptionsTrimmed[tWorklog[1].description]
        IN  tPayload[1].description =
                IF HasResolvedKey
                THEN Prefixed(tWorklog[1].issue[1].key[1], ": ", ":", trimmed)
                ELSE IF HasReferenceUri
                THEN Prefixed(tWorklog[1].issue[1].self, " | ", " |", trimmed)
                ELSE trimmed.whole

\* A worklog with both a resolved key and a URI has been transformed, its
\* original description being a tab, a vertical tab, "fix", a line
\* separator, "bug", a no-break space, an em space and a line feed: the key
\* wins, the white space at the end is removed, the white space after the
\* colon and the line separator within stay.
C13_Witness ==
    /\ tPayload # Undefined
    /\ HasResolvedKey /\ HasReferenceUri
    /\ tWorklog[1].description =
           Some(<<"\t", "U+000B">> \o Text("fix") \o <<"U+2028">> \o Text("bug")
                    \o <<"U+00A0", "U+2003", "\n">>)
    /\ tPayload[1].description =
           Text("WEB-1: ") \o <<"\t", "U+000B">> \o Text("fix") \o <<"U+2028">>
               \o Text("bug")

\* C14: optional payload fields are omitted, not nulled.  project_id
\* (respectively task_id) is a field of the payload only if the
\* configuration supplies a defined value for it; when the configuration
\* supplies none the field is absent.
C14_OptionalFieldsOmitted ==
    tPayload # Undefined =>
        \A f \in {"project_id", "task_id"} :
            f \in DOMAIN tPayload[1] => tConfig[1][f] # Undefined

\* C15: billable is true exactly when billableSeconds is strictly greater
\* than zero; for zero or negative billableSeconds it is false, whatever
\* timeSpentSeconds is.
C15_BillableIffPositive ==
    tPayload # Undefined =>
        /\ tPayload[1].billable \in BOOLEAN
        /\ tPayload[1].billable <=> (tWorklog[1].billableSeconds > 0)

\* A worklog with time spent and zero billable seconds has been
\* transformed into a payload that is not billable.
C15_Witness ==
    /\ tPayload # Undefined
    /\ tWorklog[1].billableSeconds = 0
    /\ tWorklog[1].timeSpentSeconds > 0
    /\ tPayload[1].billable = FALSE

\* C16: the batch transform is an order-preserving element-wise map.  The
\* output has the length of the input, output[i] is the transform of
\* input[i], its start is the record's startDateTimeUtc as written and its
\* duration is the record's timeSpentSeconds.
C16_BatchElementwise ==
    bPayloads # Undefined =>
        /\ Len(bPayloads[1]) = Len(bWorklogs)
        /\ \A i \in DOMAIN bWorklogs :
              /\ bPayloads[1][i] =
                     transformTempoWorklogToToggl(bWorklogs[i], bConfig[1])
              /\ bPayloads[1][i].start = bWorklogs[i].startDateTimeUtc
              /\ bPayloads[1][i].duration = bWorklogs[i].timeSpentSeconds

\* A batch of three different records has been transformed, one of them
\* with a start written with a numeric offset, one with an unparsable start.
C16_Witness ==
    /\ bPayloads # Undefined
    /\ Len(bWorklogs) = MaxBatch
    /\ bWorklogs[1].startDateTimeUtc = StartAOffset
    /\ bWorklogs[2].startDateTimeUtc = TsInvalid
    /\ bWorklogs[3].startDateTimeUtc = StartA
    /\ bPayloads[1][1].start = StartAOffset

\* fetchWorklogs has resolved: enrichWorklogsWithIssueDetails has been called.
EnrichmentCalled ==
    \E k \in DOMAIN calls : IsSettle(calls[k], "SourceFetch") /\ calls[k].out = "ok"

\* The URLs the entity lookup has been issued for, in the order of the calls.
LookupsIssued ==
    LET issues == SelectSeq(calls, LAMBDA e : IsIssue(e, "EntityLookup"))
    IN  [k \in DOMAIN issues |-> lookupUrls[issues[k].arg]]

\* The issue URIs that appear in the batch.
BatchIssueUris ==
    {tempoWorklogs[i].issue[1].self :
        i \in {j \in DOMAIN tempoWorklogs : tempoWorklogs[j].issue # Undefined}}
        \ {""}

\* C17: enrichment deduplicates its lookups.  Once enrichment has been
\* called, the entity lookup has been issued exactly once for each distinct
\* issue URI of the batch, however many records reference it, and for
\* nothing else (so never for a record without a reference).
C17_OneLookupPerUri ==
    EnrichmentCalled =>
        LET issued == LookupsIssued IN
        /\ \A u \in BatchIssueUris :
              Cardinality({k \in DOMAIN issued : issued[k] = u}) = 1
        /\ \A k \in DOMAIN issued : issued[k] \in BatchIssueUris

\* A batch of three records, two referencing the same URI and one without
\* a reference, has been enriched with a single lookup.
C17_Witness ==
    /\ EnrichmentCalled
    /\ Len(tempoWorklogs) = 3
    /\ tempoWorklogs[1].issue # Undefined
    /\ tempoWorklogs[2].issue = tempoWorklogs[1].issue
    /\ tempoWorklogs[3].issue = Undefined
    /\ Len(LookupsIssued) = 1
    /\ enrichedWorklogs # <<>>

\* enrichWorklogsWithIssueDetails has returned (fetchTimeEntries follows it).
EnrichmentReturned ==
    \E k \in DOMAIN calls : IsIssue(calls[k], "SinkFetch")

\* Every lookup issued has settled.
AllLookupsSettled ==
    \A k \in DOMAIN calls :
        IsIssue(calls[k], "EntityLookup") =>
            \E j \in DOMAIN calls :
                IsSettle(calls[j], "EntityLookup") /\ calls[j].arg = calls[k].arg

\* The outcome of the lookup of URL u: "ok" or the message of its rejection.
LookupOutcome(u) ==
    LET k == CHOOSE j \in DOMAIN calls :
                 IsSettle(calls[j], "EntityLookup") /\ lookupUrls[calls[j].arg] = u
    IN  calls[k].out

\* C18: enrichment isolates lookup failures.  Whatever lookups fail, the
\* enrichment returns once all lookups have settled and no lookup failure
\* becomes an error of the run; in what it returns every record whose
\* lookup failed has the empty string as key and as summary, every record
\* whose lookup resolved has the key and summary its own lookup returned,
\* and a record without a reference is returned as it was.
C18_LookupFailuresIsolated ==
    /\ (EnrichmentCalled /\ AllLookupsSettled) => EnrichmentReturned
    /\ \A k \in DOMAIN errors : errors[k] \notin LookupErrors
    /\ EnrichmentReturned =>
          /\ Len(enrichedWorklogs) = Len(tempoWorklogs)
          /\ \A i \in DOMAIN tempoWorklogs :
                LET w == tempoWorklogs[i]
                    e == enrichedWorklogs[i]
                IN  IF w.issue = Undefined
                    THEN e = w
                    ELSE LET u == w.issue[1].self IN
                         /\ e.issue # Undefined /\ e.issue[1].self = u
                         /\ [e EXCEPT !.issue = w.issue] = w
                         /\ IF LookupOutcome(u) = "ok"
                            THEN /\ e.issue[1].key = Some(JiraDetails(u).key)
                                 /\ e.issue[1].summary = Some(JiraDetails(u).summary)
                            ELSE /\ e.issue[1].key = Some("")
                                 /\ e.issue[1].summary = Some("")

\* Two lookups were issued, the first resolved and the second failed, and
\* the enrichment has returned: the first record carries its key, the second
\* the empty strings.
C18_Witness ==
    /\ EnrichmentReturned
    /\ Len(lookupUrls) = 2
    /\ LookupOutcome(lookupUrls[1]) = "ok"
    /\ LookupOutcome(lookupUrls[2]) # "ok"
    /\ \E i, j \in DOMAIN enrichedWorklogs :
          /\ enrichedWorklogs[i].issue = Some([self |-> lookupUrls[1],
                 key |-> Some("WEB-1"), summary |-> Some("Login page")])
          /\ enrichedWorklogs[j].issue = Some([self |-> lookupUrls[2],
                 key |-> Some(""), summary |-> Some("")])

\* fetchWorklogs has resolved with the empty list.
SourceReturnedEmpty == EnrichmentCalled /\ tempoWorklogs = <<>>

\* fetchTimeEntries has resolved with entries whose starts are all parsable.
SinkReturnedParsable ==
    /\ \E k \in DOMAIN calls : IsSettle(calls[k], "SinkFetch") /\ calls[k].out = "ok"
    /\ \A j \in DOMAIN togglEntries : togglEntries[j].start.valid

\* C19 as stated: when SourceFetch returns an empty list, the result has all
\* six counters 0 and no error, whatever the sink contains or returns.
C19_EmptySourceAllZero ==
    (SourceReturnedEmpty /\ result # Undefined) =>
        /\ result[1].tempoEntriesFetched = 0
        /\ result[1].togglEntriesFetched = 0
        /\ result[1].uniqueEntries = 0
        /\ result[1].duplicatesSkipped = 0
        /\ result[1].successfullyCreated = 0
        /\ result[1].failedToCreate = 0
        /\ result[1].errors = <<>>

\* C19, amended: when SourceFetch returns an empty list no lookup and no
\* creation is issued and the five counters other than togglEntriesFetched
\* are 0.  If SinkFetch then returns entries with parsable starts,
\* togglEntriesFetched is the number of entries it returned and there is no
\* error; if SinkFetch fails or returns an entry with an unparsable start,
\* togglEntriesFetched is 0 as well and errors holds that one failure.
C19_EmptySourceCountsSinkOnly ==
    /\ SourceReturnedEmpty =>
          \A k \in DOMAIN calls : calls[k].call \notin {"EntityLookup", "SinkCreate"}
    /\ (SourceReturnedEmpty /\ result # Undefined) =>
          /\ result[1].tempoEntriesFetched = 0
          /\ result[1].uniqueEntries = 0
          /\ result[1].duplicatesSkipped = 0
          /\ result[1].successfullyCreated = 0
          /\ result[1].failedToCreate = 0
          /\ IF SinkReturnedParsable
             THEN /\ result[1].togglEntriesFetched = Len(togglEntries)
                  /\ result[1].errors = <<>>
             ELSE /\ result[1].togglEntriesFetched = 0
                  /\ Len(result[1].errors) = 1

\* The source returned nothing, the sink returned one entry, and the run
\* has returned its result: togglEntriesFetched is 1.
C19_Witness ==
    /\ SourceReturnedEmpty
    /\ SinkReturnedParsable
    /\ Len(togglEntries) = 1
    /\ result # Undefined
    /\ result[1].togglEntriesFetched = 1
    /\ result[1].errors = <<>>

\* C20: re-running a sync is idempotent on the sink.  After a run in which
\* every creation succeeded, with the sink holding what it returned to that
\* run and the created entries (same start instants), a second run over the
\* same source records issues no SinkCreate and returns a result with
\* uniqueEntries = 0 and duplicatesSkipped = tempoEntriesFetched, the number
\* of source records.
C20_RerunCreatesNothing ==
    ~NoFirstRun =>
        /\ \A k \in DOMAIN calls : calls[k].call # "SinkCreate"
        /\ pc \notin {"creating", "failed", "thrown"}
        /\ result # Undefined =>
              /\ result[1].uniqueEntries = 0
              /\ result[1].tempoEntriesFetched = Len(firstRun[1].worklogs)
              /\ result[1].duplicatesSkipped = result[1].tempoEntriesFetched

\* The first run skipped one record as a duplicate and created two entries;
\* the second run has returned, skipping all three.
C20_Witness ==
    /\ ~NoFirstRun
    /\ firstRun[1].created = 2
    /\ Len(firstRun[1].worklogs) = 3
    /\ result # Undefined
    /\ result[1].duplicatesSkipped = 3

\* The variable has a value, and the value is not the empty string.
IsSet(name) == env[1][name] \notin {Undefined, Some(Text(""))}

\* The five variables the configuration tests set.
TestedVariables ==
    {"TOGGL_TOKEN", "TEMPO_TOKEN", "TOGGL_WORKSPACE_ID", "JIRA_EMAIL",
     "JIRA_API_TOKEN"}

\* The numbers written in the texts the environments give the three
\* numeric variables, text by text.
NumberWritten ==
    [s \in {Text(""), Text("abc"), Text("12345"), Text("99999"),
            Text("67890"), Text("54321"), Text("42abc"), Text("789"),
            <<"U+00A0", "\t">> \o Text("+789")} |->
        CASE s = Text("12345") -> 12345
          [] s = Text("99999") -> 99999
          [] s = Text("67890") -> 67890
          [] s = Text("54321") -> 54321
          [] s = Text("42abc") -> 42
          [] s \in {Text("789"), <<"U+00A0", "\t">> \o Text("+789")} -> 789
          [] s \in {Text(""), Text("abc")} -> NaN]

\* C21: loadConfig succeeds whenever TOGGL_TOKEN, TEMPO_TOKEN,
\* TOGGL_WORKSPACE_ID, JIRA_EMAIL and JIRA_API_TOKEN are set.  It returns a
\* config with those token and email values, togglWorkspaceId the number
\* parsed from the variable, and togglProjectId the parsed number when
\* TOGGL_PROJECT_ID is set and undefined when it is not.
C21_LoadsWithFiveVariables ==
    (cOutcome # Undefined /\ \A n \in TestedVariables : IsSet(n)) =>
        /\ cOutcome[1].ok
        /\ cOutcome[1].value.togglToken = env[1].TOGGL_TOKEN[1]
        /\ cOutcome[1].value.tempoToken = env[1].TEMPO_TOKEN[1]
        /\ cOutcome[1].value.jiraEmail = env[1].JIRA_EMAIL[1]
        /\ cOutcome[1].value.jiraApiToken = env[1].JIRA_API_TOKEN[1]
        /\ cOutcome[1].value.togglWorkspaceId =
               NumberWritten[env[1].TOGGL_WORKSPACE_ID[1]]
        /\ cOutcome[1].value.togglProjectId =
               IF IsSet("TOGGL_PROJECT_ID")
               THEN Some(NumberWritten[env[1].TOGGL_PROJECT_ID[1]])
               ELSE Undefined

\* C22: when exactly one of TOGGL_TOKEN, TEMPO_TOKEN, TOGGL_WORKSPACE_ID,
\* JIRA_EMAIL, JIRA_API_TOKEN is unset and the other four are set,
\* loadConfig returns no config and throws an Error whose message is
\* "Missing required environment variable: " followed by the name of the
\* unset variable (whatever TOGGL_PROJECT_ID and TOGGL_TASK_ID are).
C22_NamesTheUnsetVariable ==
    cOutcome # Undefined =>
        \A n \in TestedVariables :
            (~IsSet(n) /\ \A o \in TestedVariables \ {n} : IsSet(o)) =>
                /\ ~cOutcome[1].ok
                /\ "value" \notin DOMAIN cOutcome[1]
                /\ cOutcome[1].error.isError
                /\ cOutcome[1].error.message =
                       "Missing required environment variable: " \o n

\* loadConfig has been called with JIRA_API_TOKEN and TOGGL_TASK_ID unset
\* and the other variables set, and has thrown naming JIRA_API_TOKEN.
C22_Witness ==
    /\ cOutcome # Undefined
    /\ env[1].JIRA_API_TOKEN = Undefined
    /\ env[1].TOGGL_TASK_ID = Undefined
    /\ \A o \in TestedVariables \ {"JIRA_API_TOKEN"} : IsSet(o)
    /\ ~cOutcome[1].ok
    /\ cOutcome[1].error.message =
           "Missing required environment variable: JIRA_API_TOKEN"

\* The calendar: the lines that, once trimmed, are real dates written
\* YYYY-MM-DD, with the number of their day.
CalendarDays ==
    [line \in {Text("2025-02-27"), Text("2025-02-28"), Text("2025-03-01"),
               Text("2025-03-02"), Text("2025-03-03"), Text("2024-02-29"),
               PaddedLine} |->
        CASE line = Text("2025-02-27") -> FirstDay - 1
          [] line \in {Text("2025-02-28"), PaddedLine} -> FirstDay
          [] line = Text("2025-03-01") -> FirstDay + 1
          [] line = Text("2025-03-02") -> FirstDay + 2
          [] line = Text("2025-03-03") -> FirstDay + 3
          [] line = Text("2024-02-29") -> FirstDay - 365]

\* The last line typed deserves to be accepted: it is a real date, not
\* later than the day it was typed on and, as an end date, strictly after
\* the accepted start date.
LastLineAcceptable ==
    /\ pLast[1].line \in DOMAIN CalendarDays
    /\ CalendarDays[pLast[1].line] <= pLast[1].today
    /\ pLast[1].phase = "end" =>
           CalendarDays[pStartDate[1]] < CalendarDays[pLast[1].line]

\* What promptForDateRange has returned is a valid range, and the last line
\* typed was accepted exactly when it deserved it.
C23_ReturnsValidRange ==
    /\ pPc = "returned" =>
          /\ pStartDate # Undefined /\ pEndDate # Undefined
          /\ pStartDate[1] \in DOMAIN CalendarDays \ {PaddedLine}
          /\ pEndDate[1] \in DOMAIN CalendarDays \ {PaddedLine}
          /\ CalendarDays[pStartDate[1]] <= today
          /\ CalendarDays[pEndDate[1]] <= today
          /\ CalendarDays[pStartDate[1]] < CalendarDays[pEndDate[1]]
    /\ pLast # Undefined =>
          /\ pLast[1].verdict = "ok" <=> LastLineAcceptable
          /\ pLast[1].verdict # "ok" => pPc \in {pLast[1].phase, "thrown"}

\* A step taken after the start date was accepted leaves it as it is.
C23_StartDateKept ==
    pPc \in {"end", "returned", "thrown"} => pStartDate' = pStartDate

\* C23: promptForDateRange returns only a pair of strings that are of the
\* format YYYY-MM-DD and real calendar dates, neither later than today, the
\* end date strictly after the start date; a line is accepted exactly when
\* it meets these conditions, a rejected line leaves the prompt where it
\* was, and once the start date is accepted no later line changes it.
C23_OnlyValidRanges == []C23_ReturnsValidRange /\ [][C23_StartDateKept]_vars

\* The start date was typed on its own day, today; end dates were refused
\* until midnight passed, then the new day was accepted as end date.
C23_Witness ==
    /\ pPc = "returned"
    /\ pStartDate = Some(Text("2025-02-28"))
    /\ pEndDate = Some(Text("2025-03-01"))
    /\ today = FirstDay + 1
    /\ pLast[1].verdict = "ok"

\* C27: the prompt can always terminate.  While promptForDateRange waits
\* for a date some line would be accepted: a start date at the first
\* prompt and, for every start date accepted (today included), an end date
\* at the second.
C27_SomeLineAccepted ==
    /\ pPc = "start" =>
          \E line \in PromptLines : ValidDateVerdict(Trim(line), FALSE, today) = "ok"
    /\ pPc = "end" =>
          \E line \in PromptLines :
              EndDateVerdict(pStartDate[1], Trim(line), today) = "ok"

\* ---------------------------------------------------------------------
\* main: the date range is read, the configuration is loaded, the clients
\* and the service are constructed, and one synchronisation is run.
\* ---------------------------------------------------------------------

\* The environments main is started in: the five credentials are set, the
\* project id and the task id are set or not.
MainEnvironments ==
    {[TOGGL_TOKEN |-> Some(Text("toggl-token-123")),
      TEMPO_TOKEN |-> Some(Text("tempo-token-456")),
      TOGGL_WORKSPACE_ID |-> Some(Text("12345")),
      TOGGL_PROJECT_ID |-> p,
      TOGGL_TASK_ID |-> t,
      JIRA_EMAIL |-> Some(Text("user@example.com")),
      JIRA_API_TOKEN |-> Some(Text("jira-token-789"))] :
        p \in {Undefined, Some(Text("67890"))},
        t \in {Undefined, Some(Text("789"))}}

\* The transformConfig main hands to the SyncService constructor.
MainTransformConfig(config) ==
    [workspace_id |-> config.togglWorkspaceId,
     project_id |-> config.togglProjectId,
     task_id |-> Undefined,
     created_with |-> "tempo-to-toggl-sync"]

\* No service exists until main has constructed one; nothing reads this
\* value.
NotConstructed ==
    [workspace_id |-> 0, project_id |-> Undefined, task_id |-> Undefined,
     created_with |-> ""]

MainSpecInit ==
    /\ env \in {Some(e) : e \in MainEnvironments}
    /\ cOutcome = Undefined
    /\ transformConfig = NotConstructed
    /\ pc = "prompting"
    /\ tempoWorklogs = <<>>
    /\ lookupUrls = <<>>
    /\ pendingLookups = {}
    /\ issueDetailsMap = EmptyMap
    /\ enrichedWorklogs = <<>>
    /\ togglEntries = <<>>
    /\ deduplicationResult = EmptyDeduplicationResult
    /\ createIndex = 0
    /\ createResult = EmptyCreateResult
    /\ errors = <<>>
    /\ result = Undefined
    /\ escaped = Undefined
    /\ calls = <<>>
    /\ DedupIdle /\ NormIdle /\ TransformIdle /\ BatchIdle
    /\ PromptInit
    /\ NoFirstRun

MainUnchanged ==
    UNCHANGED <<tempoWorklogs, lookupUrls, pendingLookups, issueDetailsMap,
                enrichedWorklogs, togglEntries, deduplicationResult,
                createIndex, createResult, errors, result, calls,
                dedupVars, normVars, transformVars, batchVars, promptVars,
                firstRun, env>>

\* await promptForDateRange() returns the range the prompt accepted
\* (pStartDate, pEndDate), which main hands on as fromDate and toDate.
MainPromptReturns ==
    /\ pc = "prompting"
    /\ pPc = "returned"
    /\ pc' = "loading"
    /\ UNCHANGED <<transformConfig, cOutcome, escaped>>
    /\ MainUnchanged

\* await promptForDateRange() throws (the input ended): the catch of main
\* exits.
MainPromptThrows ==
    /\ pc = "prompting"
    /\ pPc = "thrown"
    /\ pc' = "exited"
    /\ escaped' = Some(ErrorOf("Failed to read input"))
    /\ UNCHANGED <<transformConfig, cOutcome>>
    /\ MainUnchanged

\* loadConfig(), then the construction of the clients and of the service;
\* a throw of loadConfig goes to the catch of main.
MainLoadConfig ==
    /\ pc = "loading"
    /\ LET c == loadConfig(env[1]) IN
       /\ cOutcome' = Some(c)
       /\ IF c.ok
          THEN /\ transformConfig' = MainTransformConfig(c.value)
               /\ pc' = "idle"
               /\ UNCHANGED escaped
          ELSE /\ pc' = "exited"
               /\ escaped' = Some(c.error)
               /\ UNCHANGED transformConfig
    /\ MainUnchanged

MainNext ==
    \/ PromptNext
    \/ MainPromptReturns
    \/ MainPromptThrows
    \/ MainLoadConfig
    \/ Next

MainSpec == MainSpecInit /\ [][MainNext]_vars

\* C24: counter conservation on the success path.  In the result of a run
\* that reached the creation stage, uniqueEntries + duplicatesSkipped is
\* tempoEntriesFetched (the number of records fetched), successfullyCreated
\* + failedToCreate is uniqueEntries, and errors has failedToCreate lines.
C24_CountersConserved ==
    (pc = "done" /\ result # Undefined) =>
        LET r == result[1] IN
        /\ r.tempoEntriesFetched = Len(tempoWorklogs)
        /\ r.uniqueEntries + r.duplicatesSkipped = r.tempoEntriesFetched
        /\ r.successfullyCreated + r.failedToCreate = r.uniqueEntries
        /\ Len(r.errors) = r.failedToCreate

\* A run of three records has returned: one skipped as duplicate, one
\* created, one failed.
C24_Witness ==
    /\ pc = "done" /\ result # Undefined
    /\ result[1].duplicatesSkipped = 1
    /\ result[1].successfullyCreated = 1
    /\ result[1].failedToCreate = 1

\* The records fetched whose start is in the millisecond of no sink entry.
UnmatchedRecords ==
    {i \in DOMAIN tempoWorklogs :
        \A j \in DOMAIN togglEntries :
            ~SameMillisecond(tempoWorklogs[i].startDateTimeUtc, togglEntries[j].start)}

\* C25: candidates are compared with the existing sink entries only, never
\* with each other.  Once the deduplication has returned, uniqueEntries
\* holds one entry for every record whose start matches no sink entry, also
\* when several such records have the same start; and a run that completes
\* has issued one SinkCreate for each of them.
C25_SameStartBothUnique ==
    pc \in {"creating", "done"} =>
        LET unique == deduplicationResult.uniqueEntries
            starts(st) == {i \in UnmatchedRecords :
                              tempoWorklogs[i].startDateTimeUtc = st}
        IN  /\ Len(unique) = Cardinality(UnmatchedRecords)
            /\ \A i \in UnmatchedRecords :
                  Cardinality({k \in DOMAIN unique :
                                  unique[k].start = tempoWorklogs[i].startDateTimeUtc})
                      = Cardinality(starts(tempoWorklogs[i].startDateTimeUtc))
            /\ pc = "done" => Len(CreateIssues) = Cardinality(UnmatchedRecords)

\* Two different records with the same start, matched by no sink entry,
\* have both been sent to SinkCreate in one run.
C25_Witness ==
    /\ pc = "done"
    /\ Len(tempoWorklogs) = 2
    /\ tempoWorklogs[1].tempoWorklogId # tempoWorklogs[2].tempoWorklogId
    /\ tempoWorklogs[1].startDateTimeUtc = tempoWorklogs[2].startDateTimeUtc
    /\ UnmatchedRecords = {1, 2}
    /\ Len(CreateIssues) = 2

\* What enrichment owes record w, given only the outcome of the lookup of
\* the record's own URI.
EnrichedAsOwed(w) ==
    IF w.issue = Undefined \/ w.issue[1].self = ""
    THEN w
    ELSE LET u == w.issue[1].self
             d == IF LookupOutcome(u) = "ok"
                  THEN JiraDetails(u)
                  ELSE [key |-> "", summary |-> ""]
         IN  [w EXCEPT !.issue = Some([self |-> u, key |-> Some(d.key),
                                       summary |-> Some(d.summary)])]

\* C26: enrichment does not depend on how the concurrent lookups
\* interleave.  In whatever order the lookups resolved or failed, the list
\* returned has the length and order of the input, each record is the
\* input record with the key and summary that follow from the outcome of
\* the lookup of its own URI, and a record without a reference is the
\* input record itself.
C26_InterleavingIndependent ==
    EnrichmentReturned =>
        enrichedWorklogs = [i \in DOMAIN tempoWorklogs |->
                               EnrichedAsOwed(tempoWorklogs[i])]

\* Two lookups have settled in the reverse of the order they were issued
\* in, the one that settled last being the only one that resolved, and the
\* enrichment has returned a batch that also holds a record without
\* reference.
C26_Witness ==
    /\ EnrichmentReturned
    /\ Len(lookupUrls) = 2
    /\ \E j, k \in DOMAIN calls :
          /\ j < k
          /\ IsSettle(calls[j], "EntityLookup") /\ calls[j].arg = 2
          /\ calls[j].out # "ok"
          /\ IsSettle(calls[k], "EntityLookup") /\ calls[k].arg = 1
          /\ calls[k].out = "ok"
    /\ \E i \in DOMAIN tempoWorklogs : tempoWorklogs[i].issue = Undefined

\* C28: the configured task id reaches the sink.  In a run started from
\* main, every payload handed to SinkCreate carries as task_id the task id
\* loadConfig read from TOGGL_TASK_ID.
C28_TaskIdReachesSink ==
    \A k \in DOMAIN CreateIssues :
        deduplicationResult.uniqueEntries[CreateIssues[k].arg].task_id
            = Some(cOutcome[1].value.togglTaskId)
====
